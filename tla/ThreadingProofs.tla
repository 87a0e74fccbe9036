--------------------------- MODULE ThreadingProofs ---------------------------
(***************************************************************************)
(* Proofs about infra/threading.  ThreadPool, for any number of workers,   *)
(* ranges and grains.  ThreadLocal and OwningThreadLocal, for any threads, *)
(* objects, addresses and bounds, and every interleaving of accesses,      *)
(* thread ends, destructors, eraseOrphans, iterations and swaps.           *)
(***************************************************************************)
EXTENDS ThreadPool, ThreadLocal, TLAPS

-----------------------------------------------------------------------------
(***************************************************************************)
(* ThreadPool.                                                             *)
(*                                                                         *)
(* The inductive invariant says in which of three phases the threads are   *)
(* (gathering at the start barrier, busy with a task, leaving for good)    *)
(* and, while they are busy, how the cursor divides the range: what lies   *)
(* below it ran once or is in the chunk of exactly one thread.             *)
(***************************************************************************)

\* Thread t holds the chunk it claimed last.
HasChunk(t) == pc[t] \in {"test", "run"}

Gathering(t) ==
  \/ pc[t] = "arriveStart"
  \/ pc[t] = "waitStart" /\ t \in startBarrier
  \/ pc[t] = "waitEnd"
  \/ t = Main /\ pc[t] \in {"idle", "reset"}

Busy(t) ==
  \/ pc[t] = "waitStart"
  \/ pc[t] \in {"claim", "test", "run", "arriveEnd"}
  \/ t # Main /\ pc[t] = "check"
  \/ pc[t] = "waitEnd" /\ t \in endBarrier

Leaving(t) ==
  \/ pc[t] = "waitStart"
  \/ t # Main /\ pc[t] \in {"check", "exited"}
  \/ t = Main /\ pc[t] \in {"join", "gone"}

\* No index of the current task was executed yet / all of them were, once.
Fresh == \A i \in Index : runs[i] = 0
Complete == \A i \in Index : runs[i] = IF i \in Bound THEN 1 ELSE 0

GatherPhase ==
  /\ endBarrier = {}
  /\ \A t \in startBarrier : pc[t] = "waitStart"
  /\ startBarrier # Threads
  /\ \A t \in Threads : Gathering(t)
  /\ shutdown => pc[Main] \in {"arriveStart", "waitStart"}
  /\ pc[Main] = "reset" => Fresh
  /\ pc[Main] \in {"arriveStart", "waitStart"} /\ ~shutdown => Fresh /\ workCursor = 0
  /\ pc[Main] \in {"idle", "waitEnd"} \/ shutdown => Complete

\* The chunks in the hands of two threads do not overlap, and none reaches beyond
\* the cursor.
ChunksApart ==
  \A t \in Threads : HasChunk(t) =>
    /\ begin[t] + currentTask.grainSize <= workCursor
    /\ \A u \in Threads : u # t /\ HasChunk(u) =>
         \/ begin[t] + currentTask.grainSize <= begin[u]
         \/ begin[u] + currentTask.grainSize <= begin[t]

Progress ==
  \A i \in Index :
    runs[i] = IF /\ i \in Bound
                 /\ i - currentTask.first < workCursor
                 /\ \A t \in Threads : HasChunk(t) => ~InChunk(t, i - currentTask.first)
              THEN 1 ELSE 0

WorkPhase ==
  /\ startBarrier = {}
  /\ endBarrier # Threads
  /\ \A t \in endBarrier : pc[t] = "waitEnd"
  /\ ~shutdown
  /\ \A t \in Threads : Busy(t)
  /\ ChunksApart
  /\ \A t \in Threads : pc[t] = "run" => begin[t] < currentTask.end
  /\ \A t \in Threads :
       pc[t] \in {"arriveEnd", "waitEnd"} => workCursor >= currentTask.end
  /\ Progress

ExitPhase ==
  /\ startBarrier = {}
  /\ endBarrier = {}
  /\ shutdown
  /\ \A t \in Threads : Leaving(t)
  /\ Complete

PoolInv == GatherPhase \/ WorkPhase \/ ExitPhase

-----------------------------------------------------------------------------
\* The state of the pool is well-typed in every reachable state.
THEOREM TypeCorrect == PoolSpec => []TypeOK
<1>1. PoolInit => TypeOK
  <2> SUFFICES ASSUME PoolInit PROVE TypeOK
    OBVIOUS
  <2>1. pc \in [Threads -> Labels]
    BY DEF PoolInit, Labels
  <2>2. currentTask \in Tasks /\ currentTask.first + currentTask.end <= MaxIndex
    BY BoundsAssumption DEF PoolInit, Tasks
  <2>3. calls \in 0 .. MaxCalls
    BY BoundsAssumption DEF PoolInit
  <2> QED
    BY <2>1, <2>2, <2>3 DEF PoolInit, TypeOK
<1>2. TypeOK /\ [PoolNext]_poolVars => TypeOK'
  <2> SUFFICES ASSUME TypeOK, [PoolNext]_poolVars PROVE TypeOK'
    OBVIOUS
  <2> USE DEF TypeOK, Labels, Threads, Goto
  <2>1. ASSUME NEW t \in Threads, Step(t) PROVE TypeOK'
    <3>1. CASE ArriveStart(t) BY <3>1 DEF ArriveStart, Arrived
    <3>2. CASE LeaveStart(t) BY <3>2 DEF LeaveStart
    <3>3. CASE CheckShutdown(t) BY <3>3 DEF CheckShutdown
    <3>4. CASE Claim(t) BY <3>4 DEF Claim, Tasks
    <3>5. CASE TestEnd(t) BY <3>5 DEF TestEnd
    <3>6. CASE RunChunk(t) BY <3>6 DEF RunChunk
    <3>7. CASE ArriveEnd(t) BY <3>7 DEF ArriveEnd, Arrived
    <3>8. CASE LeaveEnd(t) BY <3>8 DEF LeaveEnd
    <3> QED
      BY <2>1, <3>1, <3>2, <3>3, <3>4, <3>5, <3>6, <3>7, <3>8 DEF Step
  <2>2. CASE ResetCursor BY <2>2 DEF ResetCursor
  <2>3. CASE Join BY <2>3 DEF Join
  <2>4. CASE Owner
    <3>1. ASSUME NEW first \in 0 .. MaxIndex, NEW last \in 0 .. MaxIndex,
                 NEW grain \in 0 .. MaxGrain, ParallelForCall(first, last, grain)
          PROVE TypeOK'
      <4>1. currentTask' \in Tasks
        BY <3>1, BoundsAssumption DEF ParallelForCall, Tasks
      <4>2. (currentTask.first + currentTask.end <= MaxIndex)'
        BY <3>1, BoundsAssumption DEF ParallelForCall
      <4>3. calls' \in 0 .. MaxCalls
        BY <3>1, BoundsAssumption DEF ParallelForCall
      <4> QED
        BY <3>1, <4>1, <4>2, <4>3 DEF ParallelForCall
    <3>2. CASE DestroyPool BY <3>2 DEF DestroyPool
    <3> QED
      BY <2>4, <3>1, <3>2 DEF Owner
  <2>5. CASE UNCHANGED poolVars BY <2>5 DEF poolVars
  <2> QED
    BY <2>1, <2>2, <2>3, <2>4, <2>5 DEF PoolNext
<1> QED
  BY <1>1, <1>2, PTL DEF PoolSpec

-----------------------------------------------------------------------------
\* A chunk claimed at the cursor meets no chunk claimed before it.
LEMMA ClaimKeepsWorkPhase ==
  ASSUME TypeOK, WorkPhase, NEW t \in Threads, Claim(t)
  PROVE  WorkPhase'
<1> USE DEF TypeOK, Goto
<1>1. currentTask' = currentTask /\ runs' = runs /\ shutdown' = shutdown
      /\ startBarrier' = startBarrier /\ endBarrier' = endBarrier
  BY DEF Claim
<1>2. pc[t] = "claim" /\ pc' = [pc EXCEPT ![t] = "test"]
      /\ begin' = [begin EXCEPT ![t] = workCursor]
      /\ workCursor' = workCursor + currentTask.grainSize
  BY DEF Claim
<1>3. /\ currentTask.grainSize \in Nat \ {0} /\ currentTask.first \in Nat
      /\ currentTask.end \in Nat /\ workCursor \in Nat
      /\ \A u \in Threads : begin[u] \in Nat
  BY BoundsAssumption DEF Tasks
<1>4. \A u \in Threads : u # t =>
        pc'[u] = pc[u] /\ begin'[u] = begin[u] /\ (HasChunk(u)' <=> HasChunk(u))
  BY <1>2 DEF HasChunk
<1>5. pc'[t] = "test" /\ begin'[t] = workCursor
  BY <1>2
<1>6. \A u \in Threads : Busy(u)'
  BY <1>1, <1>2, <1>4, <1>5 DEF Busy, WorkPhase
<1>7. ChunksApart'
  BY <1>1, <1>2, <1>3, <1>4, <1>5 DEF WorkPhase, ChunksApart, HasChunk
<1>8. Progress'
  <2> SUFFICES ASSUME NEW i \in Index
               PROVE  (runs[i] = IF /\ i \in Bound
                                    /\ i - currentTask.first < workCursor
                                    /\ \A u \in Threads : HasChunk(u) =>
                                         ~InChunk(u, i - currentTask.first)
                                 THEN 1 ELSE 0)'
    BY DEF Progress
  <2> DEFINE k == i - currentTask.first
  <2>1. i \in Int /\ k \in Int
    BY <1>3, BoundsAssumption DEF Index
  <2>2. CASE i \notin Bound
    BY <2>2, <1>1 DEF WorkPhase, Progress, Bound
  <2>3. CASE i \in Bound
    <3>1. k < currentTask.end /\ k >= 0
      BY <2>3, <2>1, <1>3 DEF Bound
    <3>2. HasChunk(t)' /\ ~HasChunk(t)
      BY <1>2, <1>5 DEF HasChunk
    <3>3. InChunk(t, k)' <=> workCursor <= k /\ k < workCursor + currentTask.grainSize
      BY <1>1, <1>5, <3>1, <2>1, <1>3 DEF InChunk
    <3>4. \A u \in Threads : u # t => (InChunk(u, k)' <=> InChunk(u, k))
      BY <1>1, <1>4 DEF InChunk
    <3>5. (/\ k < workCursor
           /\ \A u \in Threads : HasChunk(u) => ~InChunk(u, k))'
          <=> (/\ k < workCursor
               /\ \A u \in Threads : HasChunk(u) => ~InChunk(u, k))
      <4>1. CASE k < workCursor
        <5>1. (k < workCursor)'
          BY <4>1, <1>1, <1>2, <1>3, <2>1
        <5>2. ~InChunk(t, k)'
          BY <4>1, <3>3, <2>1, <1>3
        <5> QED
          BY <4>1, <5>1, <5>2, <3>2, <3>4, <1>4
      <4>2. CASE ~(k < workCursor)
        <5>1. CASE (k < workCursor)'
          <6>1. InChunk(t, k)'
            BY <4>2, <5>1, <3>3, <1>1, <1>2, <1>3, <2>1
          <6> QED BY <6>1, <3>2, <4>2
        <5>2. CASE ~(k < workCursor)'
          BY <5>2, <4>2
        <5> QED BY <5>1, <5>2
      <4> QED BY <4>1, <4>2
    <3> QED
      BY <2>3, <3>5, <1>1 DEF WorkPhase, Progress, Bound
  <2> QED BY <2>2, <2>3
<1>9. \A u \in Threads : pc'[u] = "run" => begin'[u] < currentTask'.end
  BY <1>1, <1>4, <1>5 DEF WorkPhase
<1>10. \A u \in Threads :
         pc'[u] \in {"arriveEnd", "waitEnd"} => workCursor' >= currentTask'.end
  BY <1>1, <1>2, <1>3, <1>4, <1>5 DEF WorkPhase
<1>11. \A u \in endBarrier' : pc'[u] = "waitEnd"
  BY <1>1, <1>2, <1>4 DEF WorkPhase
<1> QED
  BY <1>1, <1>6, <1>7, <1>8, <1>9, <1>10, <1>11 DEF WorkPhase

\* Running a chunk turns exactly its indices from 0 to 1.
LEMMA RunKeepsWorkPhase ==
  ASSUME TypeOK, WorkPhase, NEW t \in Threads, RunChunk(t)
  PROVE  /\ WorkPhase'
         /\ \E chunk \in SUBSET Bound :
              /\ chunk # {}
              /\ \A i \in chunk : runs[i] = 0
              /\ runs' = [i \in Index |-> IF i \in chunk THEN 1 ELSE runs[i]]
<1> USE DEF TypeOK, Goto
<1>1. UNCHANGED <<startBarrier, endBarrier, workCursor, currentTask, begin, shutdown>>
  BY DEF RunChunk
<1>2. pc[t] = "run" /\ pc' = [pc EXCEPT ![t] = "claim"] /\ pc'[t] = "claim"
  BY DEF RunChunk
<1>3. /\ currentTask.grainSize \in Nat \ {0} /\ currentTask.first \in Nat
      /\ currentTask.end \in Nat /\ workCursor \in Nat
      /\ currentTask.first + currentTask.end <= MaxIndex /\ MaxIndex \in Nat
      /\ \A u \in Threads : begin[u] \in Nat
  BY BoundsAssumption DEF Tasks
<1>4. \A u \in Threads : u # t => pc'[u] = pc[u] /\ (HasChunk(u)' <=> HasChunk(u))
  BY <1>2 DEF HasChunk
<1>5. HasChunk(t) /\ ~HasChunk(t)'
  BY <1>2 DEF HasChunk
<1>6. \A u \in Threads : Busy(u)'
  BY <1>1, <1>2, <1>4 DEF Busy, WorkPhase
<1>7. ChunksApart'
  BY <1>1, <1>4, <1>5 DEF WorkPhase, ChunksApart
<1> DEFINE chunk == {i \in Index : InChunk(t, i - currentTask.first)}
<1>8. chunk \subseteq Bound
  <2> SUFFICES ASSUME NEW i \in Index, InChunk(t, i - currentTask.first) PROVE i \in Bound
    OBVIOUS
  <2>1. i \in Nat /\ i - currentTask.first \in Int /\ begin[t] \in Nat
    BY <1>3 DEF Index
  <2>2. begin[t] <= i - currentTask.first /\ i - currentTask.first < currentTask.end
    BY <2>1, <1>3 DEF InChunk
  <2> QED BY <2>1, <2>2, <1>3 DEF Bound
<1>9. begin[t] < currentTask.end /\ begin[t] + currentTask.grainSize <= workCursor
  BY <1>2, <1>5 DEF WorkPhase, ChunksApart
<1>10. \A i \in chunk : runs[i] = 0
  BY <1>5 DEF WorkPhase, Progress
<1>11. runs' = [i \in Index |-> IF i \in chunk THEN 1 ELSE runs[i]]
  BY <1>10 DEF RunChunk
<1>12. chunk # {}
  <2> DEFINE i == currentTask.first + begin[t]
  <2>1. begin[t] \in Nat
    BY <1>3
  <2>2. i \in Index /\ i - currentTask.first = begin[t]
    BY <2>1, <1>3, <1>9 DEF Index
  <2>3. InChunk(t, i - currentTask.first)
    BY <2>1, <2>2, <1>3, <1>9 DEF InChunk
  <2> QED BY <2>2, <2>3
<1>13. Progress'
  <2> SUFFICES ASSUME NEW i \in Index
               PROVE  (runs[i] = IF /\ i \in Bound
                                    /\ i - currentTask.first < workCursor
                                    /\ \A u \in Threads : HasChunk(u) =>
                                         ~InChunk(u, i - currentTask.first)
                                 THEN 1 ELSE 0)'
    BY DEF Progress
  <2> DEFINE k == i - currentTask.first
  <2>1. i \in Int /\ k \in Int
    BY <1>3 DEF Index
  <2>2. \A u \in Threads : InChunk(u, k)' <=> InChunk(u, k)
    BY <1>1 DEF InChunk
  <2>3. CASE i \notin chunk
    <3>1. runs'[i] = runs[i] /\ ~InChunk(t, k)
      BY <2>3, <1>11
    <3> QED
      BY <3>1, <2>2, <1>1, <1>4, <1>5 DEF WorkPhase, Progress, Bound
  <2>4. CASE i \in chunk
    <3>1. runs'[i] = 1 /\ InChunk(t, k)
      BY <2>4, <1>11
    <3>2. k < workCursor
      BY <3>1, <1>3, <1>9, <2>1 DEF InChunk
    <3>3. \A u \in Threads : u # t /\ HasChunk(u) => ~InChunk(u, k)
      BY <3>1, <1>3, <1>5, <2>1 DEF InChunk, WorkPhase, ChunksApart
    <3> QED
      BY <3>1, <3>2, <3>3, <2>2, <2>4, <1>1, <1>4, <1>5, <1>8 DEF Bound
  <2> QED BY <2>3, <2>4
<1>14. \A u \in Threads : pc'[u] = "run" => begin'[u] < currentTask'.end
  BY <1>1, <1>2, <1>4 DEF WorkPhase
<1>15. \A u \in Threads :
         pc'[u] \in {"arriveEnd", "waitEnd"} => workCursor' >= currentTask'.end
  BY <1>1, <1>2, <1>4 DEF WorkPhase
<1>16. \A u \in endBarrier' : pc'[u] = "waitEnd"
  BY <1>1, <1>2, <1>4 DEF WorkPhase
<1>17. WorkPhase'
  BY <1>1, <1>6, <1>7, <1>13, <1>14, <1>15, <1>16 DEF WorkPhase
<1> QED
  BY <1>8, <1>10, <1>11, <1>12, <1>17

\* The steps of a busy thread that only move it on to its next label.
LEMMA MoveKeepsWorkPhase ==
  ASSUME TypeOK, WorkPhase, NEW t \in Threads,
         LeaveStart(t) \/ CheckShutdown(t) \/ TestEnd(t)
  PROVE  WorkPhase' /\ runs' = runs
<1> USE DEF TypeOK, Goto
<1>1. UNCHANGED <<startBarrier, endBarrier, workCursor, currentTask, begin, shutdown, runs>>
  BY DEF LeaveStart, CheckShutdown, TestEnd
<1>2. PICK l \in Labels : pc' = [pc EXCEPT ![t] = l]
  BY DEF LeaveStart, CheckShutdown, TestEnd, Labels
<1>3. \A u \in Threads : u # t => pc'[u] = pc[u]
  BY <1>2
<1>4. Bound' = Bound /\ \A u \in Threads, k \in Int : InChunk(u, k)' <=> InChunk(u, k)
  BY <1>1 DEF InChunk, Bound
<1>5. /\ currentTask.grainSize \in Nat \ {0} /\ currentTask.first \in Nat
      /\ currentTask.end \in Nat /\ workCursor \in Nat /\ MaxIndex \in Nat
      /\ \A u \in Threads : begin[u] \in Nat
  BY BoundsAssumption DEF Tasks
<1>6. CASE LeaveStart(t) \/ CheckShutdown(t)
  <2>1. ~HasChunk(t) /\ ~HasChunk(t)' /\ pc'[t] \in {"check", "claim"} /\ ~shutdown
        /\ (pc'[t] = "check" => t # Main)
    BY <1>6, <1>2 DEF LeaveStart, CheckShutdown, WorkPhase, HasChunk
  <2>2. \A u \in Threads : HasChunk(u)' <=> HasChunk(u)
    BY <1>3, <2>1 DEF HasChunk
  <2>3. \A u \in Threads : Busy(u)'
    BY <1>1, <1>3, <2>1 DEF Busy, WorkPhase
  <2>4. t \notin endBarrier
    BY <1>6 DEF LeaveStart, CheckShutdown, WorkPhase
  <2>5. ChunksApart'
    BY <1>1, <2>2 DEF WorkPhase, ChunksApart
  <2>6. Progress'
    BY <1>1, <1>4, <1>5, <2>2 DEF WorkPhase, Progress, InChunk
  <2> QED
    BY <1>1, <1>3, <2>1, <2>3, <2>4, <2>5, <2>6 DEF WorkPhase
<1>7. CASE TestEnd(t) /\ begin[t] < currentTask.end
  <2>1. pc[t] = "test" /\ pc'[t] = "run"
    BY <1>7, <1>5 DEF TestEnd
  <2>2. \A u \in Threads : HasChunk(u)' <=> HasChunk(u)
    BY <1>3, <2>1 DEF HasChunk
  <2>3. \A u \in Threads : Busy(u)'
    BY <1>1, <1>3, <2>1 DEF Busy, WorkPhase
  <2>4. ChunksApart'
    BY <1>1, <2>2 DEF WorkPhase, ChunksApart
  <2>5. Progress'
    BY <1>1, <1>4, <1>5, <2>2 DEF WorkPhase, Progress, InChunk
  <2> QED
    BY <1>1, <1>3, <1>7, <2>1, <2>3, <2>4, <2>5 DEF WorkPhase
<1>8. CASE TestEnd(t) /\ begin[t] >= currentTask.end
  <2>1. pc[t] = "test" /\ pc'[t] = "arriveEnd"
    BY <1>8, <1>5 DEF TestEnd
  <2>2. HasChunk(t) /\ ~HasChunk(t)' /\ \A u \in Threads : u # t => (HasChunk(u)' <=> HasChunk(u))
    BY <1>3, <2>1 DEF HasChunk
  <2>3. \A u \in Threads : Busy(u)'
    BY <1>1, <1>3, <2>1 DEF Busy, WorkPhase
  <2>4. ChunksApart'
    BY <1>1, <2>2 DEF WorkPhase, ChunksApart
  <2>5. \A k \in Int : ~InChunk(t, k)
    BY <1>5, <1>8 DEF InChunk
  <2>6. \A i \in Index : i - currentTask.first \in Int
    BY <1>5 DEF Index
  <2>7. Progress'
    BY <1>1, <1>4, <2>2, <2>5, <2>6 DEF WorkPhase, Progress
  <2>8. workCursor >= currentTask.end
    BY <1>5, <1>8, <2>2 DEF WorkPhase, ChunksApart
  <2> QED
    BY <1>1, <1>3, <2>1, <2>3, <2>4, <2>7, <2>8 DEF WorkPhase
<1> QED
  BY <1>5, <1>6, <1>7, <1>8

\* Arriving at the end barrier; the last one to arrive finds the range complete.
LEMMA ArriveEndKeepsIInv ==
  ASSUME TypeOK, WorkPhase, NEW t \in Threads, ArriveEnd(t)
  PROVE  PoolInv' /\ InCall' = InCall
<1> USE DEF TypeOK, Goto
<1>1. UNCHANGED <<startBarrier, workCursor, currentTask, begin, shutdown, runs>>
  BY DEF ArriveEnd
<1>2. pc[t] = "arriveEnd" /\ pc' = [pc EXCEPT ![t] = "waitEnd"] /\ pc'[t] = "waitEnd"
      /\ endBarrier' = Arrived(endBarrier, t)
  BY DEF ArriveEnd
<1>3. \A u \in Threads : u # t => pc'[u] = pc[u]
  BY <1>2
<1>4. \A u \in Threads : HasChunk(u)' <=> HasChunk(u)
  BY <1>2, <1>3 DEF HasChunk
<1>5. /\ currentTask.grainSize \in Nat \ {0} /\ currentTask.first \in Nat
      /\ currentTask.end \in Nat /\ workCursor \in Nat /\ MaxIndex \in Nat
  BY BoundsAssumption DEF Tasks
<1>6. Bound' = Bound /\ \A u \in Threads, k \in Int : InChunk(u, k)' <=> InChunk(u, k)
  BY <1>1 DEF InChunk, Bound
<1>7. CASE endBarrier \cup {t} # Threads
  <2>1. endBarrier' = endBarrier \cup {t}
    BY <1>2, <1>7 DEF Arrived
  <2>2. \A u \in Threads : Busy(u)'
    BY <2>1, <1>1, <1>2, <1>3 DEF Busy, WorkPhase
  <2>3. ChunksApart'
    BY <1>1, <1>4 DEF WorkPhase, ChunksApart
  <2>4. Progress'
    BY <1>1, <1>4, <1>6 DEF WorkPhase, Progress, InChunk
  <2>5. WorkPhase'
    BY <2>1, <2>2, <2>3, <2>4, <1>1, <1>2, <1>3, <1>7 DEF WorkPhase
  <2> QED
    BY <2>5, <1>1, <1>2, <1>3 DEF PoolInv, InCall, Threads
<1>8. CASE endBarrier \cup {t} = Threads
  <2>1. endBarrier' = {}
    BY <1>2, <1>8 DEF Arrived
  <2>2. \A u \in Threads : pc'[u] = "waitEnd"
    BY <1>2, <1>3, <1>8 DEF WorkPhase
  <2>3. \A u \in Threads : ~HasChunk(u)
    BY <2>2, <1>4 DEF HasChunk
  <2>4. workCursor >= currentTask.end
    BY <1>2 DEF WorkPhase
  <2>5. \A i \in Bound : i - currentTask.first < workCursor
    BY <2>4, <1>5 DEF Bound
  <2>6. Complete'
    BY <2>3, <2>5, <1>1, <1>6 DEF WorkPhase, Progress, Complete
  <2>7. Main \in Threads /\ pc'[Main] = "waitEnd"
    BY <2>2 DEF Threads
  <2>8. GatherPhase'
    BY <2>1, <2>2, <2>6, <2>7, <1>1 DEF WorkPhase, GatherPhase, Gathering
  <2> QED
    BY <2>2, <2>7, <2>8, <1>1, <1>2, <1>3 DEF PoolInv, InCall
<1> QED
  BY <1>7, <1>8

\* Arriving at the start barrier; the last one to arrive starts the work or the exit.
LEMMA ArriveStartKeepsIInv ==
  ASSUME TypeOK, GatherPhase, NEW t \in Threads, ArriveStart(t)
  PROVE  PoolInv' /\ InCall' = InCall
<1> USE DEF TypeOK, Goto
<1>1. UNCHANGED <<endBarrier, workCursor, currentTask, begin, shutdown, runs>>
  BY DEF ArriveStart
<1>2. pc[t] = "arriveStart" /\ pc' = [pc EXCEPT ![t] = "waitStart"] /\ pc'[t] = "waitStart"
      /\ startBarrier' = Arrived(startBarrier, t)
  BY DEF ArriveStart
<1>3. \A u \in Threads : u # t => pc'[u] = pc[u]
  BY <1>2
<1>4. /\ currentTask.grainSize \in Nat \ {0} /\ currentTask.first \in Nat
      /\ currentTask.end \in Nat /\ workCursor \in Nat /\ MaxIndex \in Nat
  BY BoundsAssumption DEF Tasks
<1>5. Main \in Threads
  BY DEF Threads
<1>6. Bound' = Bound
  BY <1>1 DEF Bound
<1>7. (Complete' <=> Complete) /\ (Fresh' <=> Fresh)
  BY <1>1, <1>6 DEF Complete, Fresh
<1>8. CASE startBarrier \cup {t} # Threads
  <2>1. startBarrier' = startBarrier \cup {t}
    BY <1>2, <1>8 DEF Arrived
  <2>2. \A u \in Threads : Gathering(u)'
    BY <2>1, <1>1, <1>2, <1>3 DEF Gathering, GatherPhase
  <2>3. GatherPhase'
    BY <2>1, <2>2, <1>1, <1>2, <1>3, <1>5, <1>7, <1>8 DEF GatherPhase
  <2> QED
    BY <2>3, <1>1, <1>2, <1>3, <1>5 DEF PoolInv, InCall
<1>9. CASE startBarrier \cup {t} = Threads
  <2>1. startBarrier' = {}
    BY <1>2, <1>9 DEF Arrived
  <2>2. \A u \in Threads : pc'[u] = "waitStart"
    BY <1>2, <1>3, <1>9 DEF GatherPhase
  <2>3. pc[Main] \in {"arriveStart", "waitStart"}
    BY <1>2, <1>9, <1>5 DEF GatherPhase
  <2>4. CASE shutdown
    <3>1. ExitPhase'
      BY <2>1, <2>2, <2>4, <1>1, <1>7 DEF GatherPhase, ExitPhase, Leaving
    <3> QED BY <3>1, <2>2, <2>3, <1>1, <1>5 DEF PoolInv, InCall
  <2>5. CASE ~shutdown
    <3>1. Fresh /\ workCursor = 0
      BY <2>3, <2>5 DEF GatherPhase
    <3>2. \A i \in Bound : ~(i - currentTask.first < 0)
      BY <1>4 DEF Bound
    <3>3. Progress'
      BY <3>1, <3>2, <1>1, <1>6 DEF Progress, Fresh
    <3>4. ChunksApart'
      BY <2>2 DEF ChunksApart, HasChunk
    <3>5. WorkPhase'
      BY <2>1, <2>2, <2>5, <3>3, <3>4, <1>1, <1>5 DEF GatherPhase, WorkPhase, Busy
    <3> QED BY <3>5, <2>2, <2>3, <1>1, <1>5 DEF PoolInv, InCall
  <2> QED BY <2>4, <2>5
<1> QED
  BY <1>8, <1>9

\* Every step of the pool keeps the invariant and is a step of the abstract loop.
LEMMA StepCorrect ==
  ASSUME TypeOK, PoolInv, [PoolNext]_poolVars
  PROVE  PoolInv' /\ [PF!Next]_(PF!vars)
<1> USE DEF TypeOK, Goto
<1>1. Main \in Threads
  BY DEF Threads
<1> DEFINE Same == InCall' = InCall /\ Bound' = Bound /\ runs' = runs
<1>2. Same => [PF!Next]_(PF!vars)
  BY DEF PF!vars
<1>3. ASSUME NEW t \in Threads, ArriveStart(t)
      PROVE  PoolInv' /\ Same
  <2>1. GatherPhase
    BY <1>3 DEF ArriveStart, PoolInv, WorkPhase, Busy, ExitPhase, Leaving
  <2> QED BY <1>3, <2>1, ArriveStartKeepsIInv DEF ArriveStart, Bound
<1>4. ASSUME NEW t \in Threads, ArriveEnd(t)
      PROVE  PoolInv' /\ Same
  <2>1. WorkPhase
    BY <1>4 DEF ArriveEnd, PoolInv, GatherPhase, Gathering, ExitPhase, Leaving
  <2> QED BY <1>4, <2>1, ArriveEndKeepsIInv DEF ArriveEnd, Bound
<1>5. ASSUME NEW t \in Threads, Claim(t)
      PROVE  PoolInv' /\ Same
  <2>1. WorkPhase
    BY <1>5 DEF Claim, PoolInv, GatherPhase, Gathering, ExitPhase, Leaving
  <2>2. InCall' = InCall
    BY <1>5 DEF Claim, InCall
  <2> QED BY <1>5, <2>1, <2>2, ClaimKeepsWorkPhase DEF Claim, Bound, PoolInv
<1>6. ASSUME NEW t \in Threads, TestEnd(t)
      PROVE  PoolInv' /\ Same
  <2>1. WorkPhase
    BY <1>6 DEF TestEnd, PoolInv, GatherPhase, Gathering, ExitPhase, Leaving
  <2>2. InCall' = InCall
    BY <1>6 DEF TestEnd, InCall
  <2> QED BY <1>6, <2>1, <2>2, MoveKeepsWorkPhase DEF TestEnd, Bound, PoolInv
<1>7. ASSUME NEW t \in Threads, LeaveStart(t) \/ CheckShutdown(t)
      PROVE  PoolInv' /\ Same
  <2>1. WorkPhase \/ ExitPhase
    BY <1>7 DEF LeaveStart, CheckShutdown, PoolInv, GatherPhase, Gathering
  <2>3. InCall' = InCall
    BY <1>7, <1>1, <2>1 DEF LeaveStart, CheckShutdown, InCall, WorkPhase, ExitPhase, Leaving, Busy
  <2>4. Bound' = Bound /\ runs' = runs
    BY <1>7 DEF LeaveStart, CheckShutdown, Bound
  <2>5. CASE WorkPhase
    BY <1>7, <2>3, <2>4, <2>5, MoveKeepsWorkPhase DEF PoolInv
  <2>6. CASE ExitPhase
    <3>1. ExitPhase'
      BY <1>7, <2>4, <2>6 DEF LeaveStart, CheckShutdown, ExitPhase, Leaving, Complete
    <3> QED BY <3>1, <2>3, <2>4 DEF PoolInv
  <2> QED BY <2>1, <2>5, <2>6
<1>8. ASSUME NEW t \in Threads, RunChunk(t)
      PROVE  PoolInv' /\ PF!Next
  <2>1. WorkPhase
    BY <1>8 DEF RunChunk, PoolInv, GatherPhase, Gathering, ExitPhase, Leaving
  <2>2. InCall
    BY <1>1, <2>1 DEF WorkPhase, Busy, InCall
  <2>3. InCall' /\ Bound' = Bound
    BY <1>8, <2>2 DEF RunChunk, InCall, Bound
  <2>4. PF!Execute
    BY <1>8, <2>1, <2>2, <2>3, RunKeepsWorkPhase DEF PF!Execute, PF!Index, Index
  <2> QED BY <1>8, <2>1, <2>4, RunKeepsWorkPhase DEF PoolInv, PF!Next
<1>9. ASSUME NEW t \in Threads, LeaveEnd(t)
      PROVE  PoolInv' /\ [PF!Next]_(PF!vars)
  <2>1. GatherPhase
    BY <1>9 DEF LeaveEnd, PoolInv, WorkPhase, Busy, ExitPhase, Leaving
  <2>2. UNCHANGED <<startBarrier, endBarrier, workCursor, currentTask, shutdown, runs>>
    BY <1>9 DEF LeaveEnd
  <2>3. (Bound' = Bound) /\ (Complete' <=> Complete) /\ (Fresh' <=> Fresh)
    BY <2>2 DEF Bound, Complete, Fresh
  <2>4. GatherPhase'
    BY <1>1, <1>9, <2>1, <2>2, <2>3 DEF LeaveEnd, GatherPhase, Gathering
  <2>5. CASE t # Main
    BY <1>1, <1>2, <1>9, <2>2, <2>3, <2>4, <2>5 DEF LeaveEnd, InCall, PoolInv
  <2>6. CASE t = Main
    <3>1. InCall /\ ~InCall'
      BY <1>1, <1>9, <2>6 DEF LeaveEnd, InCall
    <3>2. \A i \in Bound : i \in Index
      BY BoundsAssumption DEF Bound, Index, Tasks
    <3>3. \A i \in Bound : runs[i] = 1
      BY <1>9, <2>1, <2>6, <3>2 DEF LeaveEnd, GatherPhase, Complete
    <3>4. PF!Return
      BY <2>2, <2>3, <3>1, <3>3 DEF PF!Return
    <3> QED BY <2>4, <3>4 DEF PoolInv, PF!Next
  <2> QED BY <2>5, <2>6
<1>10. CASE ResetCursor
  <2>1. GatherPhase
    BY <1>1, <1>10 DEF ResetCursor, PoolInv, WorkPhase, Busy, ExitPhase, Leaving
  <2>2. UNCHANGED <<startBarrier, endBarrier, currentTask, shutdown, runs>> /\ workCursor' = 0
    BY <1>10 DEF ResetCursor
  <2>3. Fresh' /\ ~shutdown
    BY <1>10, <2>1, <2>2 DEF ResetCursor, GatherPhase, Fresh
  <2>4. GatherPhase'
    BY <1>1, <1>10, <2>1, <2>2, <2>3 DEF ResetCursor, GatherPhase, Gathering
  <2>5. Same
    BY <1>1, <1>10, <2>2, <2>3 DEF ResetCursor, InCall, Bound
  <2> QED BY <1>2, <2>4, <2>5 DEF PoolInv
<1>11. CASE Join
  <2>1. ExitPhase
    BY <1>1, <1>11 DEF Join, PoolInv, WorkPhase, Busy, GatherPhase, Gathering
  <2>2. UNCHANGED <<startBarrier, endBarrier, currentTask, shutdown, runs>>
    BY <1>11 DEF Join
  <2>3. ExitPhase' /\ Same
    BY <1>1, <1>11, <2>1, <2>2 DEF Join, ExitPhase, Leaving, Complete, Bound, InCall
  <2> QED BY <1>2, <2>3 DEF PoolInv
<1>12. CASE DestroyPool
  <2>1. GatherPhase
    BY <1>1, <1>12 DEF DestroyPool, PoolInv, WorkPhase, Busy, ExitPhase, Leaving
  <2>2. UNCHANGED <<startBarrier, endBarrier, currentTask, runs>> /\ shutdown'
        /\ pc'[Main] = "arriveStart" /\ \A u \in Threads : u # Main => pc'[u] = pc[u]
    BY <1>1, <1>12 DEF DestroyPool
  <2>3. Complete'
    BY <1>12, <2>1, <2>2 DEF DestroyPool, GatherPhase, Complete, Bound
  <2>4. GatherPhase'
    BY <1>1, <1>12, <2>1, <2>2, <2>3 DEF DestroyPool, GatherPhase, Gathering
  <2>5. Same
    BY <1>1, <1>12, <2>2 DEF DestroyPool, InCall, Bound
  <2> QED BY <1>2, <2>4, <2>5 DEF PoolInv
<1>13. ASSUME NEW first \in 0 .. MaxIndex, NEW last \in 0 .. MaxIndex,
              NEW grain \in 0 .. MaxGrain, ParallelForCall(first, last, grain)
       PROVE  PoolInv' /\ PF!Next
  <2>1. GatherPhase /\ ~shutdown
    BY <1>1, <1>13 DEF ParallelForCall, PoolInv, WorkPhase, Busy, ExitPhase, Leaving, GatherPhase
  <2>2. UNCHANGED <<startBarrier, endBarrier, shutdown>> /\ pc[Main] = "idle"
        /\ pc'[Main] = "reset" /\ \A u \in Threads : u # Main => pc'[u] = pc[u]
    BY <1>1, <1>13 DEF ParallelForCall
  <2>3. Fresh' /\ runs' = [i \in Index |-> 0]
    BY <1>13 DEF ParallelForCall, Fresh
  <2>4. GatherPhase'
    BY <1>1, <2>1, <2>2, <2>3 DEF GatherPhase, Gathering
  <2>5. ~InCall /\ InCall'
    BY <2>2 DEF InCall
  <2>6. first < last /\ Bound' = first .. first + (last - first) - 1
    BY <1>13 DEF ParallelForCall, Bound
  <2>7. Bound' = first .. last - 1
    BY <2>6, BoundsAssumption
  <2>8. PF!Call
    BY <2>3, <2>5, <2>6, <2>7 DEF PF!Call, PF!Index, Index
  <2> QED BY <2>4, <2>8 DEF PoolInv, PF!Next
<1>14. CASE UNCHANGED poolVars
  <2>1. Same
    BY <1>14 DEF poolVars, InCall, Bound
  <2>2. PoolInv'
    BY <1>14 DEF poolVars, PoolInv, GatherPhase, WorkPhase, ExitPhase, Gathering, Busy, Leaving,
                 Fresh, Complete, ChunksApart, Progress, HasChunk, InChunk, Bound
  <2> QED BY <1>2, <2>1, <2>2
<1> QED
  BY <1>2, <1>3, <1>4, <1>5, <1>6, <1>7, <1>8, <1>9, <1>10, <1>11, <1>12, <1>13, <1>14
     DEF PoolNext, Step, Owner

\* The pool starts in the gathering phase, as the idle abstract loop.
LEMMA InitCorrect == PoolInit => PoolInv /\ PF!Init
<1> SUFFICES ASSUME PoolInit PROVE PoolInv /\ PF!Init
  OBVIOUS
<1>1. Bound = {}
  BY DEF PoolInit, Bound
<1>2. Main \in Threads /\ pc[Main] = "idle" /\ \A t \in Threads : t # Main => pc[t] = "arriveStart"
  BY DEF PoolInit, Threads
<1>3. GatherPhase
  BY <1>1, <1>2 DEF PoolInit, GatherPhase, Gathering, Complete
<1>4. ~InCall
  BY <1>2 DEF InCall
<1> QED BY <1>1, <1>3, <1>4 DEF PoolInv, PF!Init, PF!Index, PoolInit, Index

\* The three phases and the division of the range hold in every reachable state.
THEOREM InductiveInvariant == PoolSpec => []PoolInv
<1>1. TypeOK /\ PoolInv /\ [PoolNext]_poolVars => PoolInv'
  BY StepCorrect
<1> QED BY <1>1, InitCorrect, TypeCorrect, PTL DEF PoolSpec

\* parallelFor, as the threads of the pool carry it out, implements the abstract
\* loop: every index of the range is executed once, whatever the number of workers
\* and the grain, and the call returns only when all of them are.
THEOREM PoolImplementsParallelFor == PoolSpec => Refines
<1>1. TypeOK /\ PoolInv /\ [PoolNext]_poolVars => [PF!Next]_(PF!vars)
  BY StepCorrect
<1>2. PoolInit => PF!Init
  BY InitCorrect
<1> QED BY <1>1, <1>2, TypeCorrect, InductiveInvariant, PTL DEF PoolSpec, Refines, PF!Spec

\* The loop body, a reference into the caller's frame, is not touched by any worker
\* before the caller published it or after it returned.
THEOREM WorkOnlyDuringCall == PoolSpec => []NoWorkOutsideCall
<1>1. TypeOK /\ PoolInv => NoWorkOutsideCall
  <2> SUFFICES ASSUME TypeOK, PoolInv, NEW w \in Workers, pc[w] \in {"claim", "test", "run"}
               PROVE  InCall
    BY DEF NoWorkOutsideCall
  <2>1. w \in Threads /\ Main \in Threads
    BY DEF Threads
  <2>2. WorkPhase
    BY <2>1 DEF PoolInv, GatherPhase, Gathering, ExitPhase, Leaving
  <2> QED BY <2>1, <2>2 DEF WorkPhase, Busy, InCall
<1> QED BY <1>1, TypeCorrect, InductiveInvariant, PTL

-----------------------------------------------------------------------------
(***************************************************************************)
(* ThreadLocal.                                                            *)
(*                                                                         *)
(* Every instance that is there has one place: an access that registers    *)
(* it, a slot of a thread, or its object, and an instance of an            *)
(* OwningThreadLocal that nobody marked has both, the slot and the object. *)
(* The expired flag tells which of the two is left, so the side that finds *)
(* it set is the last one.                                                 *)
(***************************************************************************)

Pointers == Addresses \cup {Null}
NextOf == [a \in Addresses |-> heap[a].next]

LocalTypeOK ==
  /\ freeSlots \in Seq([slot : Nat, version : Nat])
  /\ nextSlot \in Nat
  /\ object \in [Objects -> [kind : {"none", "Thread", "Object"}, slot : Nat,
                             version : Nat, id : Nat]]
  /\ head \in [Objects -> Pointers]
  /\ owner \in [Objects -> {"idle", "destroy", "destroyMark", "erase", "check", "walk",
                            "iterate"}]
  /\ cur \in [Objects -> Pointers]
  /\ heap \in [Addresses -> [live : BOOLEAN, kind : {"none", "Thread", "Object"},
                             version : Nat, expired : BOOLEAN, next : Pointers,
                             object : Nat, start : Nat]]
  /\ DOMAIN localState = LocalThreads
  /\ \A t \in LocalThreads :
       Started(t) => localState[t] \in [start : Nat, at : [Slots -> Pointers]]
  /\ localPc \in [LocalThreads -> {"idle", "end", "mark", "register", "load", "push"}]
  /\ arg \in [LocalThreads -> Objects \cup {Null}]
  /\ new \in [LocalThreads -> Pointers]
  /\ DOMAIN seen = LocalThreads
  /\ built \in Nat
  /\ starts \in Nat

At(t, s) == localState[t].at[s]
Exists(o) == object[o].kind # "none"

\* Slot s of thread t has an instance that the thread still has to delete or to mark.
Holds(t, s) ==
  /\ Started(t) /\ At(t, s) # Null
  /\ localPc[t] \in {"end", "mark"} => s >= seen[t]

\* The instances that an object still has to delete or to mark.
Owned(o) == Chain(o) \cup (IF owner[o] = "destroyMark" THEN {cur[o]} ELSE {})

\* Objects have slots and ids of their own, and a free slot is nobody's.
SlotsApart ==
  /\ nextSlot <= built /\ built <= MaxObjects
  /\ \A o \in Objects : IF Exists(o)
       THEN object[o].slot < nextSlot /\ object[o].id \in 1 .. built
       ELSE object[o] = NoObject
  /\ \A o, p \in Objects : Exists(o) /\ Exists(p) /\ o # p =>
       object[o].slot # object[p].slot /\ object[o].id # object[p].id
  /\ \A i \in DOMAIN freeSlots :
       /\ freeSlots[i].slot < nextSlot
       /\ \A o \in Objects : Exists(o) => object[o].slot # freeSlots[i].slot
       /\ \A j \in DOMAIN freeSlots : freeSlots[i].slot = freeSlots[j].slot => i = j

\* Where a thread is in an access or at its end.
Ends(t) ==
  /\ arg[t] = Null /\ new[t] = Null
  /\ localPc[t] = "end" => Started(t) /\ seen[t] \in 0 .. MaxObjects
  /\ localPc[t] = "mark" => /\ Started(t) /\ seen[t] \in Slots /\ Ending(t) # Null
                            /\ heap[Ending(t)].kind = "Object"

Accesses(t) ==
  LET o == arg[t]
      a == new[t]
  IN  /\ Started(t) /\ o \in Objects /\ Exists(o) /\ ~InDestructor(o)
      /\ a \in Addresses /\ heap[a].live /\ ~heap[a].expired /\ heap[a].start = StartOf(t)
      /\ heap[a].kind = object[o].kind /\ heap[a].version = object[o].version
      /\ heap[a].object = object[o].id
      /\ \A p \in Objects : a \notin Owned(p)
      /\ \A u \in LocalThreads : new[u] = a => u = t
      /\ IF localPc[t] = "register"
         THEN /\ \A u \in LocalThreads, s \in Slots : Holds(u, s) => At(u, s) # a
              /\ Holds(t, object[o].slot) =>
                   heap[At(t, object[o].slot)].version # object[o].version
         ELSE object[o].kind = "Object" /\ At(t, object[o].slot) = a
      /\ localPc[t] = "push" => seen[t] \in Pointers

ThreadOk(t) == IF localPc[t] \in {"register", "load", "push"} THEN Accesses(t) ELSE Ends(t)

\* An instance in a slot is newer than the objects that had the slot before, and
\* older than those that get it later.
HeldAge(t, s) ==
  LET a == At(t, s)
  IN  /\ s < nextSlot
      /\ \A i \in DOMAIN freeSlots :
           freeSlots[i].slot = s => heap[a].version <= freeSlots[i].version
      /\ \A o \in Objects : Exists(o) =>
           /\ object[o].slot = s => heap[a].version <= object[o].version
           /\ heap[a].object = object[o].id <=>
                object[o].slot = s /\ heap[a].version = object[o].version
           /\ heap[a].object = object[o].id =>
                heap[a].kind = object[o].kind /\ (heap[a].expired => InDestructor(o))

HeldOk(t, s) ==
  LET a == At(t, s)
  IN  /\ heap[a].live /\ heap[a].start = StartOf(t)
      /\ \A u \in LocalThreads, r \in Slots : Holds(u, r) /\ At(u, r) = a => u = t /\ r = s
      /\ IF heap[a].expired
         THEN \A o \in Objects : a \notin Owned(o)
         ELSE heap[a].kind = "Object" =>
                \/ \E u \in LocalThreads : new[u] = a
                \/ \E o \in Objects : a \in Owned(o)

\* The chain ends, and each instance on it has one predecessor.
Acyclic(first, next) ==
  /\ \A a \in Reach(first, next) : next[a] # first
  /\ \A a, b \in Reach(first, next) : next[a] = next[b] /\ next[a] # Null => a = b

OwnerOk(o) ==
  /\ Acyclic(head[o], NextOf)
  /\ object[o].kind # "Object" => owner[o] = "idle" /\ head[o] = Null
  /\ owner[o] \in {"idle", "erase"} => cur[o] = Null
  /\ owner[o] = "destroy" => cur[o] = head[o]
  /\ owner[o] = "destroyMark" => cur[o] \in Addresses \ Chain(o)
  /\ owner[o] \in {"check", "walk"} => cur[o] \in Chain(o)
  /\ owner[o] = "iterate" => cur[o] \in Chain(o) \cup {Null}

OwnedOk(o) ==
  \A a \in Owned(o) :
    /\ heap[a].live /\ heap[a].kind = "Object" /\ heap[a].object = object[o].id
    /\ ~heap[a].expired => \E t \in LocalThreads, s \in Slots : Holds(t, s) /\ At(t, s) = a

\* Whatever is there has a place, and belongs to no later object.
LiveOk(a) ==
  heap[a].live =>
    /\ heap[a].kind # "none" /\ heap[a].object \in 1 .. built
    /\ \/ \E t \in LocalThreads, s \in Slots : Holds(t, s) /\ At(t, s) = a
       \/ \E t \in LocalThreads : new[t] = a
       \/ \E o \in Objects : a \in Owned(o)

IInv ==
  /\ LocalTypeOK
  /\ SlotsApart
  /\ \A t \in LocalThreads : ThreadOk(t)
  /\ \A t \in LocalThreads, s \in Slots : Holds(t, s) => HeldAge(t, s) /\ HeldOk(t, s)
  /\ \A o \in Objects : OwnerOk(o) /\ OwnedOk(o)
  /\ \A a \in Addresses : LiveOk(a)
-----------------------------------------------------------------------------
(***************************************************************************)
(* What is reached along a next function: where a node is added or taken   *)
(* away, by induction on nothing but the leastness of the set.             *)
(***************************************************************************)

Nexts == [Addresses -> Pointers]
Closed(S, first, next) ==
  /\ first \in S \cup {Null}
  /\ \A b \in S : next[b] \in S \cup {Null}

LEMMA NullIsNoAddress == \A a \in Addresses : a # Null
BY NullAssumption

\* The set is closed itself, and within every closed set.
LEMMA ReachBasics ==
  ASSUME NEW first \in Pointers, NEW next \in Nexts
  PROVE  /\ Reach(first, next) \subseteq Addresses
         /\ Closed(Reach(first, next), first, next)
         /\ \A S \in SUBSET Addresses : Closed(S, first, next) => Reach(first, next) \subseteq S
         /\ first = Null => Reach(first, next) = {}
<1> DEFINE R == Reach(first, next)
<1>1. R \subseteq Addresses
  BY DEF Reach
<1>2. \A S \in SUBSET Addresses : Closed(S, first, next) => R \subseteq S
  BY DEF Reach, Closed
<1>3. first \in R \cup {Null}
  BY DEF Reach, Pointers
<1>4. ASSUME NEW b \in R  PROVE next[b] \in R \cup {Null}
  <2>1. next[b] \in Addresses \cup {Null}
    BY <1>1, <1>4 DEF Nexts, Pointers
  <2>2. SUFFICES ASSUME next[b] # Null,
                        NEW S \in SUBSET Addresses,
                        first \in S \cup {Null}, \A c \in S : next[c] \in S \cup {Null}
                 PROVE  next[b] \in S
    BY <2>1 DEF Reach
  <2>3. b \in S
    BY <1>4, <2>2 DEF Reach
  <2> QED
    BY <2>2, <2>3
<1>5. ASSUME first = Null  PROVE R = {}
  <2>1. Closed({}, first, next)
    BY <1>5 DEF Closed
  <2> QED
    BY <1>2, <2>1
<1>6. Closed(R, first, next)
  BY <1>3, <1>4 DEF Closed
<1> QED
  BY <1>1, <1>2, <1>5, <1>6

\* A closed set of which no proper part is closed is what is reached.
LEMMA ReachIs ==
  ASSUME NEW first \in Pointers, NEW next \in Nexts, NEW C \in SUBSET Addresses,
         Closed(C, first, next),
         \A S \in SUBSET C : Closed(S, first, next) => S = C
  PROVE  Reach(first, next) = C
BY ReachBasics

\* Only the links of what is reached matter.
LEMMA ReachFrame ==
  ASSUME NEW first \in Pointers, NEW next \in Nexts, NEW other \in Nexts,
         \A a \in Reach(first, next) : other[a] = next[a]
  PROVE  /\ Reach(first, other) = Reach(first, next)
         /\ Acyclic(first, next) => Acyclic(first, other)
<1> DEFINE C == Reach(first, next)
<1>1. /\ C \in SUBSET Addresses
      /\ Closed(C, first, next)
      /\ \A S \in SUBSET Addresses : Closed(S, first, next) => C \subseteq S
  BY ReachBasics
<1>2. Closed(C, first, other)
  BY <1>1 DEF Closed
<1>3. ASSUME NEW S \in SUBSET C, Closed(S, first, other)  PROVE S = C
  <2>1. Closed(S, first, next)
    BY <1>1, <1>3 DEF Closed
  <2> QED
    BY <1>1, <1>3, <2>1
<1>4. Reach(first, other) = C
  BY <1>1, <1>2, <1>3, ReachIs
<1> QED
  BY <1>4 DEF Acyclic

LEMMA NoLoop ==
  ASSUME NEW first \in Pointers, NEW next \in Nexts, Acyclic(first, next)
  PROVE  \A a \in Reach(first, next) : next[a] # a
<1> DEFINE C == Reach(first, next)
<1>1. /\ C \in SUBSET Addresses
      /\ Closed(C, first, next)
      /\ \A S \in SUBSET Addresses : Closed(S, first, next) => C \subseteq S
  BY ReachBasics
<1>2. SUFFICES ASSUME NEW a \in C, next[a] = a  PROVE FALSE
  OBVIOUS
<1>3. first # a
  BY <1>2 DEF Acyclic
<1>4. \A b \in C : next[b] = a => b = a
  BY <1>1, <1>2, NullIsNoAddress DEF Acyclic
<1>5. Closed(C \ {a}, first, next)
  BY <1>1, <1>3, <1>4 DEF Closed
<1> QED
  BY <1>1, <1>2, <1>5

\* Push: a new node before the first.
LEMMA ReachPush ==
  ASSUME NEW first \in Pointers, NEW next \in Nexts, NEW other \in Nexts,
         Acyclic(first, next),
         NEW x \in Addresses, x \notin Reach(first, next),
         \A a \in Reach(first, next) : other[a] = next[a], other[x] = first
  PROVE  /\ Reach(x, other) = Reach(first, next) \cup {x}
         /\ Acyclic(x, other)
<1> DEFINE C == Reach(first, next)
<1>1. /\ C \in SUBSET Addresses
      /\ Closed(C, first, next)
      /\ \A S \in SUBSET Addresses : Closed(S, first, next) => C \subseteq S
  BY ReachBasics
<1>x. x # Null /\ x \in Pointers
  BY NullIsNoAddress DEF Pointers
<1>2. Closed(C \cup {x}, x, other)
  BY <1>1 DEF Closed
<1>3. ASSUME NEW S \in SUBSET (C \cup {x}), Closed(S, x, other)  PROVE S = C \cup {x}
  <2>1. x \in S
    BY <1>3, <1>x DEF Closed
  <2>2. Closed(S \ {x}, first, next)
    BY <1>1, <1>3, <1>x, <2>1 DEF Closed
  <2>3. C \subseteq S \ {x}
    BY <1>1, <1>3, <2>2
  <2> QED
    BY <1>3, <2>1, <2>3
<1>4. Reach(x, other) = C \cup {x}
  <2> DEFINE D == C \cup {x}
  <2>1. D \in SUBSET Addresses /\ Closed(D, x, other)
    BY <1>1, <1>2
  <2>2. \A S \in SUBSET D : Closed(S, x, other) => S = D
    BY <1>3
  <2> HIDE DEF D
  <2>3. Reach(x, other) = D
    BY <1>x, <2>1, <2>2, ReachIs
  <2> QED
    BY <2>3 DEF D
<1>5. \A a \in C : other[a] # x /\ other[a] = next[a]
  BY <1>1, <1>x DEF Closed
<1>6. other[x] = first /\ first # x
  BY <1>1, <1>x DEF Closed
<1>7. \A a \in C : next[a] # first
  BY DEF Acyclic
<1>8. \A a, b \in C : next[a] = next[b] /\ next[a] # Null => a = b
  BY DEF Acyclic
<1>9. \A a \in C \cup {x} : other[a] # x
  BY <1>5, <1>6
<1>10. \A a, b \in C \cup {x} : other[a] = other[b] /\ other[a] # Null => a = b
  BY <1>5, <1>6, <1>7, <1>8
<1> QED
  BY <1>4, <1>9, <1>10 DEF Acyclic

\* The first node is taken away.
LEMMA ReachPop ==
  ASSUME NEW first \in Addresses, NEW next \in Nexts, NEW other \in Nexts,
         Acyclic(first, next),
         \A a \in Reach(first, next) \ {first} : other[a] = next[a]
  PROVE  /\ Reach(next[first], other) = Reach(first, next) \ {first}
         /\ Acyclic(next[first], other)
         /\ first \in Reach(first, next)
<1> DEFINE C == Reach(first, next)
           h == next[first]
<1>t. first \in Pointers /\ first # Null
  BY NullIsNoAddress DEF Pointers
<1>1. /\ C \in SUBSET Addresses
      /\ Closed(C, first, next)
      /\ \A S \in SUBSET Addresses : Closed(S, first, next) => C \subseteq S
  BY <1>t, ReachBasics
<1>2. first \in C /\ h \in C \cup {Null} /\ h # first
  BY <1>1, <1>t DEF Closed, Acyclic
<1>h. h \in Pointers
  BY <1>2, <1>1 DEF Pointers
<1>7. \A a \in C : next[a] # first
  BY DEF Acyclic
<1>8. \A a, b \in C : next[a] = next[b] /\ next[a] # Null => a = b
  BY DEF Acyclic
<1>3. Closed(C \ {first}, h, other)
  BY <1>1, <1>2, <1>7 DEF Closed
<1>4. ASSUME NEW S \in SUBSET (C \ {first}), Closed(S, h, other)  PROVE S = C \ {first}
  <2>1. Closed(S \cup {first}, first, next)
    BY <1>4 DEF Closed
  <2> QED
    BY <1>1, <1>2, <1>4, <2>1
<1>5. Reach(h, other) = C \ {first}
  <2> DEFINE D == C \ {first}
  <2>1. D \in SUBSET Addresses /\ Closed(D, h, other)
    BY <1>1, <1>3
  <2>2. \A S \in SUBSET D : Closed(S, h, other) => S = D
    BY <1>4
  <2> HIDE DEF D, h
  <2>3. Reach(h, other) = D
    BY <1>h, <2>1, <2>2, ReachIs
  <2> QED
    BY <2>3 DEF D
<1>6. ASSUME NEW a \in C \ {first}  PROVE other[a] # h
  <2>1. CASE h # Null
    BY <1>2, <1>6, <1>8, <2>1
  <2>2. CASE h = Null
    <3>1. Closed({first}, first, next)
      BY <2>2 DEF Closed
    <3> QED
      BY <1>1, <1>2, <1>6, <3>1
  <2> QED
    BY <2>1, <2>2
<1>9. \A a, b \in C \ {first} : other[a] = other[b] /\ other[a] # Null => a = b
  BY <1>8
<1> QED
  BY <1>2, <1>5, <1>6, <1>9 DEF Acyclic

\* The node after c is taken away.
LEMMA ReachUnlink ==
  ASSUME NEW first \in Pointers, NEW next \in Nexts, NEW other \in Nexts,
         Acyclic(first, next),
         NEW c \in Reach(first, next), next[c] # Null,
         other[c] = next[next[c]],
         \A a \in Reach(first, next) \ {c, next[c]} : other[a] = next[a]
  PROVE  /\ next[c] \in Reach(first, next) /\ next[c] # c
         /\ Reach(first, other) = Reach(first, next) \ {next[c]}
         /\ Acyclic(first, other)
<1> DEFINE C == Reach(first, next)
           x == next[c]
<1>1. /\ C \in SUBSET Addresses
      /\ Closed(C, first, next)
      /\ \A S \in SUBSET Addresses : Closed(S, first, next) => C \subseteq S
  BY ReachBasics
<1>2. x \in C /\ next[x] \in C \cup {Null}
  BY <1>1 DEF Closed
<1>3. \A a \in C : next[a] # a
  BY NoLoop
<1>4. \A a \in C : next[a] # first
  BY DEF Acyclic
<1>5. \A a, b \in C : next[a] = next[b] /\ next[a] # Null => a = b
  BY DEF Acyclic
<1>6. x # c /\ x # first /\ next[x] # x
  BY <1>2, <1>3, <1>4
<1>7. \A a \in C \ {x} : /\ a = c => other[a] = next[x]
                        /\ a # c => other[a] = next[a] /\ other[a] # x
  BY <1>2, <1>5
<1>8. Closed(C \ {x}, first, other)
  BY <1>1, <1>2, <1>6, <1>7 DEF Closed
<1>9. ASSUME NEW S \in SUBSET (C \ {x}), Closed(S, first, other)  PROVE S = C \ {x}
  <2>1. CASE c \in S
    <3>1. Closed(S \cup {x}, first, next)
      BY <1>7, <1>9, <2>1 DEF Closed
    <3> QED
      BY <1>1, <1>2, <1>9, <3>1
  <2>2. CASE c \notin S
    <3>1. Closed(S, first, next)
      BY <1>7, <1>9, <2>2 DEF Closed
    <3> QED
      BY <1>1, <1>2, <1>9, <3>1
  <2> QED
    BY <2>1, <2>2
<1>10. Reach(first, other) = C \ {x}
  <2> DEFINE D == C \ {x}
  <2>1. D \in SUBSET Addresses /\ Closed(D, first, other)
    BY <1>1, <1>8
  <2>2. \A S \in SUBSET D : Closed(S, first, other) => S = D
    BY <1>9
  <2> HIDE DEF D
  <2>3. Reach(first, other) = D
    BY <2>1, <2>2, ReachIs
  <2> QED
    BY <2>3 DEF D
<1>11. \A a \in C \ {x} : other[a] # first
  BY <1>2, <1>4, <1>7
<1>12. ASSUME NEW a \in C \ {x}, NEW b \in C \ {x}, other[a] = other[b], other[a] # Null
       PROVE  a = b
  <2>1. a # c => other[a] = next[a] /\ other[a] # next[x]
    BY <1>2, <1>5, <1>7, <1>12
  <2>2. b # c => other[b] = next[b] /\ other[b] # next[x]
    BY <1>2, <1>5, <1>7, <1>12
  <2> QED
    BY <1>5, <1>7, <1>12, <2>1, <2>2
<1> QED
  BY <1>2, <1>6, <1>10, <1>11, <1>12 DEF Acyclic
-----------------------------------------------------------------------------
(***************************************************************************)
(* Steps that change nothing but where somebody is.                        *)
(***************************************************************************)

USE DEF Pointers

LEMMA NextsTyped == LocalTypeOK => NextOf \in Nexts
BY DEF LocalTypeOK, NextOf, Nexts

LEMMA ChainBasics ==
  ASSUME LocalTypeOK, NEW o \in Objects
  PROVE  /\ Chain(o) \subseteq Addresses
         /\ head[o] # Null => head[o] \in Chain(o)
         /\ head[o] = Null => Chain(o) = {}
         /\ \A a \in Chain(o) : heap[a].next \in Chain(o) \cup {Null}
<1>1. NextOf \in Nexts /\ head[o] \in Pointers
  BY NextsTyped DEF LocalTypeOK
<1>2. Chain(o) = Reach(head[o], NextOf)
  BY DEF Chain, NextOf
<1>3. /\ Chain(o) \subseteq Addresses /\ Closed(Chain(o), head[o], NextOf)
      /\ head[o] = Null => Chain(o) = {}
  BY <1>1, <1>2, ReachBasics
<1> QED
  BY <1>3 DEF Closed, NextOf

\* A step of an owner that leaves the instances alone.
LEMMA OwnerMoves ==
  ASSUME IInv, LocalTypeOK', UNCHANGED <<objectVars, localThreadVars, heap>>,
         \A o \in Objects : Owned(o)' = Owned(o) /\ OwnerOk(o)',
         \A o \in Objects : InDestructor(o) => InDestructor(o)',
         \A o \in Objects : InDestructor(o)' /\ ~InDestructor(o) => NotAccessed(o)
  PROVE  IInv'
<1> USE DEF objectVars, localThreadVars
<1>1. SlotsApart'
  BY DEF IInv, SlotsApart, Exists
<1>2. \A t \in LocalThreads : \A s :
        /\ (At(t, s) = At(t, s)') /\ (Holds(t, s) <=> Holds(t, s)')
        /\ (Started(t) <=> Started(t)') /\ StartOf(t) = StartOf(t)'
  BY DEF At, Holds, Started, StartOf
<1>3. ASSUME NEW t \in LocalThreads  PROVE ThreadOk(t)'
  <2>1. ThreadOk(t)
    BY DEF IInv
  <2>2. CASE localPc[t] \in {"register", "load", "push"}
    <3>1. Accesses(t)
      BY <2>1, <2>2 DEF ThreadOk
    <3>2. ~InDestructor(arg[t])'
      BY <3>1 DEF Accesses, NotAccessed
    <3>3. Accesses(t)'
      BY <3>1, <3>2, <1>2 DEF Accesses, Exists, Started, StartOf
    <3> QED
      BY <2>2, <3>3 DEF ThreadOk
  <2>3. CASE localPc[t] \notin {"register", "load", "push"}
    BY <2>1, <2>3 DEF ThreadOk, Ends, Started, Ending
  <2> QED
    BY <2>2, <2>3
<1>4. ASSUME NEW t \in LocalThreads, NEW s \in Slots, Holds(t, s)'
      PROVE  HeldAge(t, s)' /\ HeldOk(t, s)'
  <2>1. Holds(t, s) /\ HeldAge(t, s) /\ HeldOk(t, s)
    BY <1>2, <1>4 DEF IInv
  <2>2. HeldAge(t, s)'
    BY <2>1, <1>2 DEF HeldAge, Exists
  <2>3. HeldOk(t, s)'
    BY <2>1, <1>2 DEF HeldOk
  <2> QED
    BY <2>2, <2>3
<1>5. ASSUME NEW o \in Objects  PROVE OwnedOk(o)'
  <2>1. OwnedOk(o)
    BY DEF IInv
  <2> QED
    BY <1>2, <2>1 DEF OwnedOk
<1>6. ASSUME NEW a \in Addresses  PROVE LiveOk(a)'
  <2>1. LiveOk(a)
    BY DEF IInv
  <2> QED
    BY <1>2, <2>1 DEF LiveOk
<1> QED
  BY <1>1, <1>3, <1>4, <1>5, <1>6 DEF IInv

LEMMA SlotTyped ==
  ASSUME IInv, NEW o \in Objects, Exists(o)
  PROVE  object[o].slot \in Slots /\ object[o].id \in 1 .. built
<1>1. object[o].slot \in Nat /\ nextSlot \in Nat /\ built \in Nat
  BY DEF IInv, LocalTypeOK
<1>2. object[o].slot < nextSlot /\ nextSlot <= built /\ built <= MaxObjects
      /\ object[o].id \in 1 .. built
  BY DEF IInv, SlotsApart
<1> QED
  BY <1>1, <1>2, MaxObjectsAssumption DEF Slots

\* A step of a thread that leaves the instances and its own slots alone.
LEMMA ThreadMoves ==
  ASSUME IInv, LocalTypeOK', UNCHANGED <<objectVars, ownerVars, arg, new, head, heap>>,
         NEW t \in LocalThreads, ThreadOk(t)',
         \A u \in LocalThreads \ {t} :
           /\ localState'[u] = localState[u] /\ localPc'[u] = localPc[u]
           /\ seen'[u] = seen[u],
         \A s \in Slots :
           /\ Holds(t, s) <=> Holds(t, s)'
           /\ Holds(t, s) => At(t, s) = At(t, s)' /\ StartOf(t) = StartOf(t)'
  PROVE  IInv'
<1> USE DEF objectVars, ownerVars
<1>1. SlotsApart'
  BY DEF IInv, SlotsApart, Exists
<1>2. \A u \in LocalThreads \ {t} :
        /\ Started(u) <=> Started(u)'
        /\ StartOf(u) = StartOf(u)'
        /\ \A s : At(u, s) = At(u, s)' /\ (Holds(u, s) <=> Holds(u, s)')
  BY DEF At, Holds, Started, StartOf
<1>3. \A u \in LocalThreads, s \in Slots :
        /\ Holds(u, s) <=> Holds(u, s)'
        /\ Holds(u, s) => At(u, s) = At(u, s)' /\ StartOf(u) = StartOf(u)'
  BY <1>2
<1>4. \A o \in Objects : Chain(o) = Chain(o)' /\ Owned(o) = Owned(o)'
                         /\ (Exists(o) <=> Exists(o)') /\ (InDestructor(o) <=> InDestructor(o)')
  BY DEF Chain, Owned, Exists, InDestructor
<1>5. ASSUME NEW u \in LocalThreads  PROVE ThreadOk(u)'
  <2>1. CASE u = t
    BY <2>1
  <2>2. CASE u # t
    <3>1. ThreadOk(u)
      BY DEF IInv
    <3>2. CASE localPc[u] \in {"register", "load", "push"}
      <4>1. Accesses(u)
        BY <3>1, <3>2 DEF ThreadOk
      <4>2. object[arg[u]].slot \in Slots
        BY <4>1, SlotTyped DEF Accesses
      <4>3. Accesses(u)'
        BY <1>2, <1>3, <1>4, <2>2, <4>1, <4>2 DEF Accesses
      <4> QED
        BY <2>2, <3>2, <4>3 DEF ThreadOk
    <3>3. CASE localPc[u] \notin {"register", "load", "push"}
      <4>1. Ends(u)
        BY <3>1, <3>3 DEF ThreadOk
      <4>2. Ends(u)'
        BY <1>2, <2>2, <4>1 DEF Ends, Ending
      <4> QED
        BY <2>2, <3>3, <4>2 DEF ThreadOk
    <3> QED
      BY <3>2, <3>3
  <2> QED
    BY <2>1, <2>2
<1>6. ASSUME NEW u \in LocalThreads, NEW s \in Slots, Holds(u, s)'
      PROVE  HeldAge(u, s)' /\ HeldOk(u, s)'
  <2>1. Holds(u, s) /\ HeldAge(u, s) /\ HeldOk(u, s)
    BY <1>3, <1>6 DEF IInv
  <2>2. HeldAge(u, s)'
    BY <2>1, <1>3, <1>4 DEF HeldAge
  <2>3. HeldOk(u, s)'
    BY <2>1, <1>3, <1>4 DEF HeldOk
  <2> QED
    BY <2>2, <2>3
<1>7. ASSUME NEW o \in Objects  PROVE OwnerOk(o)' /\ OwnedOk(o)'
  <2>1. OwnerOk(o) /\ OwnedOk(o)
    BY DEF IInv
  <2>2. OwnerOk(o)'
    BY <1>4, <2>1 DEF OwnerOk, NextOf
  <2>3. OwnedOk(o)'
    BY <1>3, <1>4, <2>1 DEF OwnedOk
  <2> QED
    BY <2>2, <2>3
<1>8. ASSUME NEW a \in Addresses  PROVE LiveOk(a)'
  <2>1. LiveOk(a)
    BY DEF IInv
  <2> QED
    BY <1>3, <1>4, <2>1 DEF LiveOk
<1> QED
  BY <1>1, <1>5, <1>6, <1>7, <1>8 DEF IInv

\* All of an instance but its link to the next one.
SameInstance(a) ==
  /\ heap'[a].live = heap[a].live /\ heap'[a].kind = heap[a].kind
  /\ heap'[a].version = heap[a].version /\ heap'[a].expired = heap[a].expired
  /\ heap'[a].object = heap[a].object /\ heap'[a].start = heap[a].start

SameThread(t) ==
  /\ localState'[t] = localState[t] /\ localPc'[t] = localPc[t]
  /\ seen'[t] = seen[t] /\ arg'[t] = arg[t] /\ new'[t] = new[t]

LEMMA ThreadSame ==
  ASSUME NEW t \in LocalThreads, SameThread(t)
  PROVE  /\ Started(t) <=> Started(t)'
         /\ StartOf(t) = StartOf(t)'
         /\ \A s : At(t, s) = At(t, s)' /\ (Holds(t, s) <=> Holds(t, s)')
BY DEF SameThread, Started, StartOf, At, Holds

OwnedPlace(o, a) ==
  /\ heap[a].live /\ heap[a].kind = "Object" /\ heap[a].object = object[o].id
  /\ ~heap[a].expired => \E t \in LocalThreads, s \in Slots : Holds(t, s) /\ At(t, s) = a

\* A step that changes the instances of a set, or their places, leaves all others
\* as they were.
LEMMA InstancesChange ==
  ASSUME IInv, LocalTypeOK', UNCHANGED objectVars,
         NEW X \in SUBSET Addresses,
         \A x \in X : LiveOk(x)',
         \A b \in Addresses \ X : SameInstance(b),
         \A o \in Objects : /\ Owned(o)' \ X = Owned(o) \ X
                            /\ \A x \in X : x \in Owned(o)' => OwnedPlace(o, x)'
                            /\ OwnerOk(o)'
                            /\ InDestructor(o) <=> InDestructor(o)',
         \A t \in LocalThreads : \A b \in Addresses \ X : new'[t] = b <=> new[t] = b,
         \A t \in LocalThreads : (SameThread(t) /\ new[t] \notin X) \/ ThreadOk(t)',
         \A t \in LocalThreads, s \in Slots :
           /\ Holds(t, s) /\ At(t, s) \notin X => Holds(t, s)' /\ At(t, s)' = At(t, s)
           /\ Holds(t, s)' /\ At(t, s)' \notin X =>
                Holds(t, s) /\ At(t, s)' = At(t, s) /\ StartOf(t)' = StartOf(t)
           /\ Holds(t, s)' /\ At(t, s)' \in X => HeldAge(t, s)' /\ HeldOk(t, s)',
         \A t \in LocalThreads, s \in Slots :
           Holds(t, s)' /\ At(t, s) \in X /\ SameThread(t) =>
             /\ heap'[At(t, s)].kind = heap[At(t, s)].kind
             /\ heap'[At(t, s)].version = heap[At(t, s)].version
  PROVE  IInv'
<1> USE DEF objectVars
<1>1. SlotsApart'
  BY DEF IInv, SlotsApart, Exists
<1>2. \A o \in Objects : Exists(o) <=> Exists(o)'
  BY DEF Exists
<1>3. ASSUME NEW t \in LocalThreads  PROVE ThreadOk(t)'
  <2>1. CASE ThreadOk(t)'
    BY <2>1
  <2>2. CASE SameThread(t) /\ new[t] \notin X
    <3>1. ThreadOk(t)
      BY DEF IInv
    <3>2. /\ Started(t) <=> Started(t)'
          /\ StartOf(t) = StartOf(t)'
          /\ \A s : At(t, s) = At(t, s)' /\ (Holds(t, s) <=> Holds(t, s)')
      BY <2>2, ThreadSame
    <3>3. CASE localPc[t] \in {"register", "load", "push"}
      <4>1. Accesses(t)
        BY <3>1, <3>3 DEF ThreadOk
      <4>2. PICK o \in Objects, r \in Slots : o = arg[t] /\ r = object[o].slot
        BY <4>1, SlotTyped DEF Accesses
      <4>3. /\ Started(t) /\ Exists(o) /\ ~InDestructor(o)
            /\ new[t] \in Addresses /\ heap[new[t]].live /\ ~heap[new[t]].expired
            /\ heap[new[t]].start = StartOf(t)
            /\ heap[new[t]].kind = object[o].kind /\ heap[new[t]].version = object[o].version
            /\ heap[new[t]].object = object[o].id
        BY <4>1, <4>2 DEF Accesses
      <4>4. SameInstance(new[t])
        BY <2>2, <4>3
      <4>5. Accesses(t)'
        <5>1. \A p \in Objects : new[t] \notin Owned(p)'
          BY <2>2, <4>1 DEF Accesses
        <5>2. \A u \in LocalThreads : new'[u] = new[t] => u = t
          BY <2>2, <4>1, <4>3 DEF Accesses
        <5>3. ASSUME localPc[t] = "register"
              PROVE  /\ \A u \in LocalThreads, s \in Slots : Holds(u, s)' => At(u, s)' # new[t]
                     /\ Holds(t, r)' => heap'[At(t, r)'].version # object[o].version
          <6>1. \A u \in LocalThreads, s \in Slots : Holds(u, s) => At(u, s) # new[t]
            BY <4>1, <5>3 DEF Accesses
          <6>2. \A u \in LocalThreads, s \in Slots : Holds(u, s)' => At(u, s)' # new[t]
            BY <2>2, <6>1
          <6>3. ASSUME Holds(t, r)'  PROVE heap'[At(t, r)'].version # object[o].version
            <7>1. Holds(t, r) /\ At(t, r) = At(t, r)'
              BY <3>2, <6>3
            <7>2. At(t, r) \in Addresses
              BY <7>1 DEF Holds, At, IInv, LocalTypeOK
            <7>3. heap[At(t, r)].version # object[o].version
              BY <4>1, <4>2, <5>3, <7>1 DEF Accesses
            <7>4. heap'[At(t, r)].version = heap[At(t, r)].version
              BY <2>2, <6>3, <7>1, <7>2 DEF SameInstance
            <7> QED
              BY <7>1, <7>3, <7>4
          <6> QED
            BY <6>2, <6>3
        <5>4. localPc[t] # "register" => object[o].kind = "Object" /\ At(t, r)' = new[t]
          BY <3>2, <4>1, <4>2 DEF Accesses
        <5>5. localPc[t] = "push" => seen[t] \in Pointers
          BY <4>1 DEF Accesses
        <5>6. /\ arg'[t] = o /\ new'[t] = new[t] /\ localPc'[t] = localPc[t] /\ seen'[t] = seen[t]
              /\ object'[o].slot = r
          BY <2>2, <4>2 DEF SameThread
        <5>7. /\ Started(t)' /\ Exists(o)' /\ ~InDestructor(o)'
              /\ heap'[new[t]].live /\ ~heap'[new[t]].expired
              /\ heap'[new[t]].start = StartOf(t)'
              /\ heap'[new[t]].kind = object'[o].kind
              /\ heap'[new[t]].version = object'[o].version
              /\ heap'[new[t]].object = object'[o].id
          BY <1>2, <3>2, <4>3, <4>4 DEF SameInstance
        <5> QED
          BY <4>3, <5>1, <5>2, <5>3, <5>4, <5>5, <5>6, <5>7 DEF Accesses
      <4> QED
        BY <2>2, <3>3, <4>5 DEF ThreadOk, SameThread
    <3>4. CASE localPc[t] \notin {"register", "load", "push"}
      <4>1. Ends(t)
        BY <3>1, <3>4 DEF ThreadOk
      <4>2. localPc[t] = "mark" => heap'[Ending(t)].kind = heap[Ending(t)].kind
        <5>1. SUFFICES ASSUME localPc[t] = "mark"  PROVE heap'[Ending(t)].kind = heap[Ending(t)].kind
          OBVIOUS
        <5>2. PICK s \in Slots : s = seen[t]
          BY <4>1, <5>1 DEF Ends
        <5>3. Ending(t) = At(t, s) /\ Ending(t) # Null /\ Started(t)
          BY <4>1, <5>1, <5>2 DEF Ends, Ending, At
        <5>4. Holds(t, s)
          BY <5>1, <5>2, <5>3, MaxObjectsAssumption DEF Holds, Slots
        <5>5. Holds(t, s)'
          BY <3>2, <5>4
        <5>6. At(t, s) \in Pointers
          BY <5>3 DEF At, IInv, LocalTypeOK
        <5> QED
          BY <2>2, <5>3, <5>5, <5>6 DEF SameInstance
      <4>3. Ends(t)'
        BY <2>2, <3>2, <4>1, <4>2 DEF Ends, Ending, SameThread
      <4> QED
        BY <2>2, <3>4, <4>3 DEF ThreadOk, SameThread
    <3> QED
      BY <3>3, <3>4
  <2> QED
    BY <2>1, <2>2
<1>4. ASSUME NEW u \in LocalThreads, NEW s \in Slots, Holds(u, s)'
      PROVE  HeldAge(u, s)' /\ HeldOk(u, s)'
  <2>1. CASE At(u, s)' \in X
    BY <1>4, <2>1
  <2>2. CASE At(u, s)' \notin X
    <3> DEFINE a == At(u, s)
    <3>1. Holds(u, s) /\ HeldAge(u, s) /\ HeldOk(u, s) /\ At(u, s)' = a
          /\ StartOf(u) = StartOf(u)'
      BY <1>4, <2>2 DEF IInv
    <3>2. a \in Addresses \ X
      BY <2>2, <3>1 DEF IInv, LocalTypeOK, At, Holds
    <3>3. SameInstance(a)
      BY <3>2
    <3>4. HeldAge(u, s)'
      BY <1>2, <3>1, <3>3 DEF HeldAge, SameInstance
    <3>5. \A t \in LocalThreads, r \in Slots :
            Holds(t, r)' /\ At(t, r)' = a => t = u /\ r = s
      BY <3>1, <3>2 DEF HeldOk
    <3>6. /\ \A o \in Objects : a \in Owned(o)' <=> a \in Owned(o)
          /\ \A t \in LocalThreads : new'[t] = a <=> new[t] = a
      BY <3>2
    <3>7. IF heap[a].expired THEN \A o \in Objects : a \notin Owned(o)'
          ELSE heap[a].kind = "Object" =>
                 \/ \E t \in LocalThreads : new'[t] = a
                 \/ \E o \in Objects : a \in Owned(o)'
      BY <3>1, <3>6 DEF HeldOk
    <3>8. heap'[a].live /\ heap'[a].start = StartOf(u)'
      BY <3>1, <3>3 DEF HeldOk, SameInstance
    <3> HIDE DEF a
    <3>9. HeldOk(u, s)'
      BY <3>1, <3>3, <3>5, <3>7, <3>8 DEF HeldOk, SameInstance
    <3> QED
      BY <3>4, <3>9
  <2> QED
    BY <2>1, <2>2
<1>5. ASSUME NEW o \in Objects, NEW a \in Owned(o)'  PROVE OwnedPlace(o, a)'
  <2>1. CASE a \in X
    BY <2>1
  <2>2. CASE a \notin X
    <3>1. OwnedOk(o) /\ a \in Owned(o)
      BY <1>5, <2>2 DEF IInv
    <3>2. a \in Addresses
      BY <3>1, ChainBasics DEF Owned, OwnerOk, IInv
    <3>3. SameInstance(a)
      BY <2>2, <3>2
    <3>4. /\ heap[a].live /\ heap[a].kind = "Object" /\ heap[a].object = object[o].id
          /\ ~heap[a].expired => \E t \in LocalThreads, s \in Slots : Holds(t, s) /\ At(t, s) = a
      BY <3>1 DEF OwnedOk
    <3>5. ~heap[a].expired => \E t \in LocalThreads, s \in Slots : Holds(t, s)' /\ At(t, s)' = a
      BY <2>2, <3>4
    <3> QED
      BY <3>3, <3>4, <3>5 DEF SameInstance, OwnedPlace
  <2> QED
    BY <2>1, <2>2
<1>6. ASSUME NEW a \in Addresses  PROVE LiveOk(a)'
  <2>1. LiveOk(a)
    BY DEF IInv
  <2>2. CASE a \in X
    BY <2>2
  <2>3. CASE a \notin X
    <3>1. SameInstance(a)
      BY <2>3
    <3>2. \A o \in Objects : a \in Owned(o)' <=> a \in Owned(o)
      BY <2>3
    <3>3. \A t \in LocalThreads, s \in Slots :
            Holds(t, s) /\ At(t, s) = a => Holds(t, s)' /\ At(t, s)' = a
      BY <2>3
    <3>4. \A t \in LocalThreads : new'[t] = a <=> new[t] = a
      BY <2>3
    <3> QED
      BY <2>1, <3>1, <3>2, <3>3, <3>4 DEF LiveOk, SameInstance
  <2> QED
    BY <2>2, <2>3
<1>7. \A o \in Objects : OwnerOk(o)' /\ OwnedOk(o)'
  BY <1>5 DEF OwnedOk, OwnedPlace
<1> QED
  BY <1>1, <1>3, <1>4, <1>6, <1>7 DEF IInv

\* One instance, which no slot has after the step and no access registers.
LEMMA InstanceChanges ==
  ASSUME IInv, LocalTypeOK', UNCHANGED objectVars,
         NEW x \in Addresses, LiveOk(x)',
         \A b \in Addresses \ {x} : SameInstance(b),
         \A o \in Objects : /\ Owned(o)' \ {x} = Owned(o) \ {x}
                            /\ x \in Owned(o)' => OwnedPlace(o, x)'
                            /\ OwnerOk(o)'
                            /\ InDestructor(o) <=> InDestructor(o)',
         \A t \in LocalThreads : new[t] # x /\ new'[t] = new[t],
         \A t \in LocalThreads : SameThread(t) \/ ThreadOk(t)',
         \A t \in LocalThreads, s \in Slots :
           /\ Holds(t, s)' <=> Holds(t, s) /\ At(t, s) # x
           /\ Holds(t, s)' => At(t, s) = At(t, s)' /\ StartOf(t) = StartOf(t)'
  PROVE  IInv'
<1> DEFINE X == {x}
<1>1. X \in SUBSET Addresses /\ \A y \in X : LiveOk(y)'
  OBVIOUS
<1>2. \A b \in Addresses \ X : SameInstance(b)
  OBVIOUS
<1>3. \A o \in Objects : /\ Owned(o)' \ X = Owned(o) \ X
                         /\ \A y \in X : y \in Owned(o)' => OwnedPlace(o, y)'
                         /\ OwnerOk(o)'
                         /\ InDestructor(o) <=> InDestructor(o)'
  OBVIOUS
<1>4. \A t \in LocalThreads : /\ \A b \in Addresses \ X : new'[t] = b <=> new[t] = b
                              /\ (SameThread(t) /\ new[t] \notin X) \/ ThreadOk(t)'
  OBVIOUS
<1>5. \A t \in LocalThreads, s \in Slots :
        /\ Holds(t, s) /\ At(t, s) \notin X => Holds(t, s)' /\ At(t, s)' = At(t, s)
        /\ Holds(t, s)' => /\ Holds(t, s) /\ At(t, s)' = At(t, s) /\ StartOf(t)' = StartOf(t)
                           /\ At(t, s) \notin X
  OBVIOUS
<1> HIDE DEF X
<1> QED
  BY <1>1, <1>2, <1>3, <1>4, <1>5, InstancesChange

\* An instance is deleted by the last one that follows it.
LEMMA Deletes ==
  ASSUME IInv, LocalTypeOK', UNCHANGED objectVars,
         NEW x \in Addresses, ~heap'[x].live,
         \A b \in Addresses \ {x} : SameInstance(b),
         \A o \in Objects : /\ Owned(o)' = Owned(o) \ {x} /\ OwnerOk(o)'
                            /\ InDestructor(o) <=> InDestructor(o)',
         \A t \in LocalThreads : new[t] # x /\ new'[t] = new[t],
         \A t \in LocalThreads : SameThread(t) \/ ThreadOk(t)',
         \A t \in LocalThreads, s \in Slots :
           /\ Holds(t, s)' <=> Holds(t, s) /\ At(t, s) # x
           /\ Holds(t, s)' => At(t, s) = At(t, s)' /\ StartOf(t) = StartOf(t)'
  PROVE  IInv'
<1>1. LiveOk(x)'
  BY DEF LiveOk
<1>2. \A o \in Objects : Owned(o)' \ {x} = Owned(o) \ {x} /\ x \notin Owned(o)'
  OBVIOUS
<1> QED
  BY <1>1, <1>2, InstanceChanges

-----------------------------------------------------------------------------
(***************************************************************************)
(* The types.                                                              *)
(***************************************************************************)

Instances == [live : BOOLEAN, kind : {"none", "Thread", "Object"}, version : Nat,
              expired : BOOLEAN, next : Pointers, object : Nat, start : Nat]

\* The last element of a sequence, and the rest.
LEMMA LastIn ==
  ASSUME NEW S, NEW s \in Seq(S), s # <<>>
  PROVE  /\ Len(s) \in DOMAIN s /\ s[Len(s)] \in S
         /\ SubSeq(s, 1, Len(s) - 1) \in Seq(S)
         /\ DOMAIN SubSeq(s, 1, Len(s) - 1) = DOMAIN s \ {Len(s)}
         /\ \A i \in DOMAIN s \ {Len(s)} : SubSeq(s, 1, Len(s) - 1)[i] = s[i]
<1>1. Len(s) \in Nat \ {0} /\ DOMAIN s = 1 .. Len(s)
  OBVIOUS
<1> QED
  BY <1>1

\* The steps of threads.
LEMMA ThreadTypes ==
  ASSUME IInv, NEW t \in LocalThreads,
         StartThread(t) \/ EndThread(t) \/ ThreadStep(t)
  PROVE  LocalTypeOK'
<1> USE DEF objectVars, ownerVars, Started
<1>0. LocalTypeOK /\ ThreadOk(t)
  BY DEF IInv
<1>i. NoInstance \in Instances
  BY DEF NoInstance, Instances
<1>h. heap \in [Addresses -> Instances]
  BY <1>0 DEF LocalTypeOK, Instances
<1>1. CASE StartThread(t)
  <2>1. [s \in Slots |-> Null] \in [Slots -> Pointers]
    OBVIOUS
  <2>2. starts' \in Nat
    BY <1>0, <1>1 DEF StartThread, LocalTypeOK
  <2>3. localState'[t] \in [start : Nat, at : [Slots -> Pointers]]
    BY <1>0, <1>1, <2>1, <2>2 DEF StartThread, LocalTypeOK
  <2>4. \A u \in LocalThreads \ {t} : localState'[u] = localState[u]
    BY <1>0, <1>1 DEF StartThread, LocalTypeOK
  <2> QED
    BY <1>0, <1>1, <2>2, <2>3, <2>4 DEF StartThread, LocalTypeOK
<1>2. CASE EndThread(t)
  BY <1>0, <1>2 DEF EndThread, Proceed, LocalTypeOK
<1>3. CASE EndInstance(t) \/ MarkInstance(t)
  <2>1. heap' \in [Addresses -> Instances]
    <3>1. ASSUME NEW x  PROVE [heap EXCEPT ![x].expired = TRUE] \in [Addresses -> Instances]
      BY <1>h DEF Instances
    <3>2. ASSUME NEW x  PROVE Deleted(x) \in [Addresses -> Instances]
      BY <1>h, <1>i DEF Deleted
    <3> QED
      BY <1>h, <1>3, <3>1, <3>2 DEF EndInstance, MarkInstance
  <2> QED
    BY <1>0, <1>3, <2>1 DEF EndInstance, MarkInstance, Proceed, NextSlot, LocalTypeOK, Instances
<1>4. CASE FinishThread(t)
  BY <1>0, <1>4 DEF FinishThread, Proceed, LocalTypeOK
<1>5. CASE Register(t)
  <2>1. heap' \in [Addresses -> Instances]
    BY <1>h, <1>i, <1>5 DEF Register, DeleteLeftover, Deleted
  <2>2. ASSUME NEW u \in LocalThreads, Started(u)'
        PROVE localState'[u] \in [start : Nat, at : [Slots -> Pointers]]
    <3>1. CASE u # t
      BY <1>0, <1>5, <2>2, <3>1 DEF Register, LocalTypeOK
    <3>2. CASE u = t
      <4>1. Started(t) /\ new[t] \in Pointers
        BY <1>0, <1>5 DEF Register, ThreadOk, Accesses, LocalTypeOK
      <4>2. localState[t] \in [start : Nat, at : [Slots -> Pointers]]
        BY <1>0, <4>1 DEF LocalTypeOK
      <4>3. localState'[t] = [localState[t] EXCEPT !.at = [@ EXCEPT ![object[arg[t]].slot] = new[t]]]
        BY <1>0, <1>5 DEF Register, LocalTypeOK
      <4> QED
        BY <3>2, <4>1, <4>2, <4>3
    <3> QED
      BY <3>1, <3>2
  <2>3. DOMAIN localState' = LocalThreads
    BY <1>0, <1>5 DEF Register, LocalTypeOK
  <2>4. /\ localPc' \in [LocalThreads -> {"idle", "end", "mark", "register", "load", "push"}]
        /\ arg' \in [LocalThreads -> Objects \cup {Null}] /\ new' \in [LocalThreads -> Pointers]
    BY <1>0, <1>5 DEF Register, Return, Proceed, LocalTypeOK
  <2> QED
    BY <1>0, <1>5, <2>1, <2>2, <2>3, <2>4 DEF Register, LocalTypeOK, Instances
<1>6. CASE LoadHead(t)
  BY <1>0, <1>6 DEF LoadHead, Proceed, LocalTypeOK
<1>7. CASE Push(t)
  <2>1. seen[t] \in Pointers
    BY <1>0, <1>7 DEF Push, ThreadOk, Accesses
  <2>2. heap' \in [Addresses -> Instances]
    BY <1>h, <1>7, <2>1 DEF Push, Instances
  <2>3. head' \in [Objects -> Pointers]
    <3>1. head \in [Objects -> Pointers] /\ new[t] \in Pointers
      BY <1>0 DEF LocalTypeOK
    <3>2. head' = head \/ head' = [head EXCEPT ![arg[t]] = new[t]]
      BY <1>7 DEF Push
    <3> QED
      BY <3>1, <3>2
  <2>4. /\ localPc' \in [LocalThreads -> {"idle", "end", "mark", "register", "load", "push"}]
        /\ arg' \in [LocalThreads -> Objects \cup {Null}] /\ new' \in [LocalThreads -> Pointers]
        /\ DOMAIN seen' = LocalThreads
    BY <1>0, <1>7 DEF Push, Return, Proceed, LocalTypeOK
  <2> QED
    BY <1>0, <1>7, <2>2, <2>3, <2>4 DEF Push, LocalTypeOK, Instances
<1> QED
  BY <1>1, <1>2, <1>3, <1>4, <1>5, <1>6, <1>7 DEF ThreadStep

\* Where the fields of the variables are.
LEMMA Domains ==
  ASSUME LocalTypeOK
  PROVE  /\ DOMAIN heap = Addresses /\ DOMAIN object = Objects /\ DOMAIN head = Objects
         /\ DOMAIN owner = Objects /\ DOMAIN cur = Objects
BY DEF LocalTypeOK

OwnerLabels == {"idle", "destroy", "destroyMark", "erase", "check", "walk", "iterate"}

LEMMA OwnersTyped ==
  LocalTypeOK => /\ owner \in [Objects -> OwnerLabels] /\ cur \in [Objects -> Pointers]
            /\ head \in [Objects -> Pointers] /\ heap \in [Addresses -> Instances]
BY DEF LocalTypeOK, OwnerLabels, Instances

\* What the owners of objects can change.
LEMMA OwnersFrame ==
  ASSUME LocalTypeOK, UNCHANGED <<objectVars, localThreadVars>>,
         owner' \in [Objects -> OwnerLabels], cur' \in [Objects -> Pointers],
         head' \in [Objects -> Pointers], heap' \in [Addresses -> Instances]
  PROVE  LocalTypeOK'
<1>1. /\ UNCHANGED <<freeSlots, nextSlot, object, built, localState, localPc, arg, new, seen, starts>>
  BY DEF objectVars, localThreadVars
<1>2. /\ freeSlots' \in Seq([slot : Nat, version : Nat]) /\ nextSlot' \in Nat
      /\ object' \in [Objects -> [kind : {"none", "Thread", "Object"}, slot : Nat,
                                   version : Nat, id : Nat]]
      /\ built' \in Nat
  BY <1>1 DEF LocalTypeOK
<1>3. /\ DOMAIN localState' = LocalThreads
      /\ \A t \in LocalThreads :
           Started(t)' => localState'[t] \in [start : Nat, at : [Slots -> Pointers]]
      /\ localPc' \in [LocalThreads -> {"idle", "end", "mark", "register", "load", "push"}]
      /\ arg' \in [LocalThreads -> Objects \cup {Null}] /\ new' \in [LocalThreads -> Pointers]
      /\ DOMAIN seen' = LocalThreads /\ starts' \in Nat
  BY <1>1 DEF LocalTypeOK, Started
<1> QED
  BY <1>2, <1>3 DEF LocalTypeOK, OwnerLabels, Instances

\* The steps of the owners of objects.
LEMMA OwnerTypes ==
  ASSUME IInv, NEW o \in Objects,
         Destroy(o) \/ EraseOrphans(o) \/ Iterate(o) \/ OwnerStep(o)
  PROVE  LocalTypeOK'
<1>0. LocalTypeOK /\ OwnerOk(o)
  BY DEF IInv
<1>i. NoInstance \in Instances
  BY DEF NoInstance, Instances
<1>h. /\ owner \in [Objects -> OwnerLabels] /\ cur \in [Objects -> Pointers]
      /\ head \in [Objects -> Pointers] /\ heap \in [Addresses -> Instances]
  BY <1>0, OwnersTyped
<1>g. ASSUME NEW label \in OwnerLabels, OwnerGoto(o, label)
      PROVE  owner' \in [Objects -> OwnerLabels]
  BY <1>h, <1>g DEF OwnerGoto
<1>l. /\ "idle" \in OwnerLabels /\ "destroy" \in OwnerLabels /\ "destroyMark" \in OwnerLabels
      /\ "erase" \in OwnerLabels /\ "check" \in OwnerLabels /\ "walk" \in OwnerLabels
      /\ "iterate" \in OwnerLabels
  BY DEF OwnerLabels
<1>n. ASSUME NEW a \in Addresses  PROVE heap[a].next \in Pointers
  BY <1>h DEF Instances
<1>d. ASSUME NEW a \in Addresses
      PROVE  /\ Deleted(a) \in [Addresses -> Instances]
             /\ [heap EXCEPT ![a].expired = TRUE] \in [Addresses -> Instances]
  <2>1. Deleted(a) \in [Addresses -> Instances]
    BY <1>h, <1>i DEF Deleted
  <2>2. [heap[a] EXCEPT !.expired = TRUE] \in Instances
    <3>1. heap[a] \in Instances
      BY <1>h
    <3> QED
      BY <3>1 DEF Instances
  <2> QED
    BY <1>h, <2>1, <2>2
<1>c. head[o] \in Pointers /\ cur[o] \in Pointers
  BY <1>h
<1>f. ASSUME FreeSlot(o), UNCHANGED <<localThreadVars, cur, head, heap>>,
             owner' \in [Objects -> OwnerLabels]
      PROVE  LocalTypeOK'
  <2>1. [slot |-> object[o].slot, version |-> object[o].version] \in [slot : Nat, version : Nat]
    BY <1>0 DEF LocalTypeOK
  <2>2. /\ freeSlots' \in Seq([slot : Nat, version : Nat])
        /\ object' \in [Objects -> [kind : {"none", "Thread", "Object"}, slot : Nat,
                                    version : Nat, id : Nat]]
        /\ nextSlot' = nextSlot /\ built' = built
    BY <1>0, <1>f, <2>1 DEF FreeSlot, LocalTypeOK, NoObject
  <2>3. UNCHANGED <<localState, localPc, arg, new, seen, starts, cur, head, heap>>
    BY <1>f DEF localThreadVars
  <2> QED
    BY <1>0, <1>f, <2>2, <2>3 DEF LocalTypeOK, Started, OwnerLabels
<1>1. CASE Destroy(o)
  <2>1. CASE object[o].kind = "Thread"
    <3>1. FreeSlot(o) /\ UNCHANGED <<localThreadVars, cur, head, heap>> /\ owner' = owner
      BY <1>1, <2>1 DEF Destroy, ownerVars
    <3> QED
      BY <1>f, <1>h, <3>1
  <2>2. CASE object[o].kind # "Thread"
    <3>1. /\ OwnerGoto(o, "destroy") /\ cur' = [cur EXCEPT ![o] = head[o]]
          /\ UNCHANGED <<objectVars, localThreadVars>> /\ head' = head /\ heap' = heap
      BY <1>1, <2>2 DEF Destroy
    <3> QED
      BY <1>0, <1>c, <1>g, <1>h, <1>l, <3>1, OwnersFrame
  <2> QED
    BY <2>1, <2>2
<1>2. CASE EraseOrphans(o)
  <2>1. /\ OwnerGoto(o, "erase") /\ UNCHANGED <<objectVars, localThreadVars>>
        /\ cur' = cur /\ head' = head /\ heap' = heap
    BY <1>2 DEF EraseOrphans
  <2> QED
    BY <1>0, <1>g, <1>h, <1>l, <2>1, OwnersFrame
<1>3. CASE EraseLoad(o)
  <2>1. /\ OwnerGoto(o, "idle") \/ OwnerGoto(o, "check")
        /\ UNCHANGED <<objectVars, localThreadVars>>
        /\ cur' = [cur EXCEPT ![o] = head[o]] /\ head' = head /\ heap' = heap
    BY <1>3 DEF EraseLoad
  <2> QED
    BY <1>0, <1>c, <1>g, <1>h, <1>l, <2>1, OwnersFrame
<1>4. CASE Iterate(o)
  <2>1. /\ OwnerGoto(o, "iterate") /\ UNCHANGED <<objectVars, localThreadVars>>
        /\ cur' = [cur EXCEPT ![o] = head[o]] /\ head' = head /\ heap' = heap
    BY <1>4 DEF Iterate
  <2> QED
    BY <1>0, <1>c, <1>g, <1>h, <1>l, <2>1, OwnersFrame
<1>5. CASE DestroyInstance(o)
  <2>1. cur[o] \in Addresses
    BY <1>c, <1>5 DEF DestroyInstance, Pointers
  <2>2. PICK x \in Pointers : x = heap[cur[o]].next
    BY <1>n, <2>1
  <2>3. head' = [head EXCEPT ![o] = x] /\ UNCHANGED <<objectVars, localThreadVars>>
    BY <1>5, <2>2 DEF DestroyInstance
  <2>4. head' \in [Objects -> Pointers] /\ head'[o] = x
    BY <1>h, <2>3
  <2>5. /\ heap' \in [Addresses -> Instances] /\ cur' \in [Objects -> Pointers]
        /\ owner' \in [Objects -> OwnerLabels]
    <3>1. CASE heap[cur[o]].expired
      <4>1. heap' = Deleted(cur[o]) /\ cur' = [cur EXCEPT ![o] = x] /\ owner' = owner
        BY <1>5, <2>4, <3>1 DEF DestroyInstance
      <4> QED
        BY <1>d, <1>h, <2>1, <4>1
    <3>2. CASE ~heap[cur[o]].expired
      <4>1. OwnerGoto(o, "destroyMark") /\ heap' = heap /\ cur' = cur
        BY <1>5, <3>2 DEF DestroyInstance
      <4> QED
        BY <1>g, <1>h, <1>l, <4>1
    <3> QED
      BY <3>1, <3>2
  <2> QED
    BY <1>0, <2>3, <2>4, <2>5, OwnersFrame
<1>6. CASE DestroyMark(o)
  <2>1. cur[o] \in Addresses
    BY <1>0, <1>6 DEF DestroyMark, OwnerOk
  <2>2. /\ heap' = Deleted(cur[o]) \/ heap' = [heap EXCEPT ![cur[o]].expired = TRUE]
        /\ cur' = [cur EXCEPT ![o] = head[o]] /\ OwnerGoto(o, "destroy")
        /\ UNCHANGED <<objectVars, localThreadVars>> /\ head' = head
    BY <1>6 DEF DestroyMark
  <2> QED
    BY <1>0, <1>c, <1>d, <1>g, <1>h, <1>l, <2>1, <2>2, OwnersFrame
<1>7. CASE FinishDestroy(o)
  <2>1. /\ FreeSlot(o) /\ UNCHANGED <<localThreadVars, cur, head, heap>>
        /\ OwnerGoto(o, "idle")
    BY <1>7 DEF FinishDestroy
  <2> QED
    BY <1>f, <1>g, <1>l, <2>1
<1>8. CASE EraseCheck(o)
  <2>1. cur[o] \in Addresses
    BY <1>0, <1>8, ChainBasics DEF EraseCheck, OwnerOk
  <2>2. PICK x \in Pointers : x = heap[cur[o]].next
    BY <1>n, <2>1
  <2>3. /\ head' = head \/ head' = [head EXCEPT ![o] = x]
        /\ heap' = heap \/ heap' = Deleted(cur[o])
        /\ cur' = cur \/ cur' = [cur EXCEPT ![o] = Null]
        /\ OwnerGoto(o, "erase") \/ OwnerGoto(o, "walk")
        /\ UNCHANGED <<objectVars, localThreadVars>>
    BY <1>8, <2>2 DEF EraseCheck, EraseHead
  <2>4. head' \in [Objects -> Pointers] /\ cur' \in [Objects -> Pointers]
    BY <1>h, <2>3 DEF Pointers
  <2> QED
    BY <1>0, <1>d, <1>g, <1>h, <1>l, <2>1, <2>3, <2>4, OwnersFrame
<1>9. CASE EraseWalk(o)
  <2>1. cur[o] \in Addresses
    BY <1>0, <1>9, ChainBasics DEF EraseWalk, OwnerOk
  <2>2. PICK c \in Addresses, x \in Pointers : c = cur[o] /\ x = heap[c].next
    BY <1>n, <2>1
  <2>3. heap' \in [Addresses -> Instances]
    <3>1. CASE heap' = heap
      BY <1>h, <3>1
    <3>2. CASE heap' # heap
      <4>1. x # Null /\ heap' = [Deleted(x) EXCEPT ![c].next = heap[x].next]
        BY <1>9, <2>2, <3>2 DEF EraseWalk
      <4>2. x \in Addresses
        BY <4>1 DEF Pointers
      <4>3. heap[x].next \in Pointers /\ Deleted(x) \in [Addresses -> Instances]
        BY <1>d, <1>n, <4>2
      <4>4. [Deleted(x)[c] EXCEPT !.next = heap[x].next] \in Instances
        <5>1. Deleted(x)[c] \in Instances
          BY <4>3
        <5> QED
          BY <4>3, <5>1 DEF Instances
      <4>5. heap' = [Deleted(x) EXCEPT ![c] = [@ EXCEPT !.next = heap[x].next]]
        BY <4>1
      <4> QED
        BY <4>3, <4>4, <4>5
    <3> QED
      BY <3>1, <3>2
  <2>4. /\ cur' = cur \/ cur' = [cur EXCEPT ![o] = Null] \/ cur' = [cur EXCEPT ![o] = x]
        /\ owner' = owner \/ OwnerGoto(o, "idle")
        /\ UNCHANGED <<objectVars, localThreadVars>> /\ head' = head
    BY <1>9, <2>2 DEF EraseWalk, ownerVars
  <2>5. cur' \in [Objects -> Pointers]
    BY <1>h, <2>4 DEF Pointers
  <2> QED
    BY <1>0, <1>g, <1>h, <1>l, <2>3, <2>4, <2>5, OwnersFrame
<1>10. CASE IterateNext(o)
  <2>1. /\ owner' = owner \/ OwnerGoto(o, "idle")
        /\ cur' = cur \/ (cur[o] # Null /\ cur' = [cur EXCEPT ![o] = heap[cur[o]].next])
        /\ UNCHANGED <<objectVars, localThreadVars>> /\ head' = head /\ heap' = heap
    BY <1>10 DEF IterateNext
  <2>2. cur' \in [Objects -> Pointers]
    <3>1. cur[o] # Null => heap[cur[o]].next \in Pointers
      BY <1>c, <1>n DEF Pointers
    <3> QED
      BY <1>h, <2>1, <3>1
  <2> QED
    BY <1>0, <1>g, <1>h, <1>l, <2>1, <2>2, OwnersFrame
<1> QED
  BY <1>1, <1>2, <1>3, <1>4, <1>5, <1>6, <1>7, <1>8, <1>9, <1>10 DEF OwnerStep

\* Construction, swap and the first access.
LEMMA OtherTypes ==
  ASSUME IInv,
         \/ \E t \in LocalThreads, o \in Objects : Create(t, o)
         \/ \E o \in Objects, kind \in {"Thread", "Object"} : Construct(o, kind)
         \/ \E o, p \in Objects : Swap(o, p)
  PROVE  LocalTypeOK'
<1> USE DEF objectVars, ownerVars, localThreadVars, Started
<1>0. LocalTypeOK
  BY DEF IInv
<1>1. ASSUME NEW t \in LocalThreads, NEW o \in Objects, Create(t, o)  PROVE LocalTypeOK'
  <2>1. StartOf(t) \in Nat
    BY <1>0, <1>1 DEF Create, LocalTypeOK, StartOf
  <2>2. heap \in [Addresses -> Instances]
    BY <1>0 DEF LocalTypeOK, Instances
  <2>3. [live |-> TRUE, kind |-> object[o].kind, version |-> object[o].version,
         expired |-> FALSE, next |-> Null, object |-> object[o].id,
         start |-> StartOf(t)] \in Instances
    BY <1>0, <2>1 DEF LocalTypeOK, Instances
  <2>4. heap' \in [Addresses -> Instances] /\ new' \in [LocalThreads -> Pointers]
    BY <1>0, <1>1, <2>2, <2>3 DEF Create, LocalTypeOK
  <2> QED
    BY <1>0, <1>1, <2>4 DEF Create, Proceed, LocalTypeOK, Instances
<1>2. ASSUME NEW o \in Objects, NEW kind \in {"Thread", "Object"}, Construct(o, kind)
      PROVE  LocalTypeOK'
  <2>1. NewSlot.slot \in Nat /\ NewSlot.version \in Nat
    <3>1. CASE freeSlots = <<>>
      BY <1>0, <3>1 DEF NewSlot, LocalTypeOK
    <3>2. CASE freeSlots # <<>>
      <4>1. freeSlots[Len(freeSlots)] \in [slot : Nat, version : Nat]
        BY <1>0, <3>2, LastIn DEF LocalTypeOK
      <4> QED
        BY <3>2, <4>1 DEF NewSlot
    <3> QED
      BY <3>1, <3>2
  <2>2. freeSlots' \in Seq([slot : Nat, version : Nat]) /\ nextSlot' \in Nat
    <3>1. CASE freeSlots = <<>>
      BY <1>0, <1>2, <3>1 DEF Construct, LocalTypeOK
    <3>2. CASE freeSlots # <<>>
      <4>1. freeSlots \in Seq([slot : Nat, version : Nat]) /\ nextSlot \in Nat
        BY <1>0 DEF LocalTypeOK
      <4>2. SubSeq(freeSlots, 1, Len(freeSlots) - 1) \in Seq([slot : Nat, version : Nat])
        BY <3>2, <4>1, LastIn
      <4>3. freeSlots' = SubSeq(freeSlots, 1, Len(freeSlots) - 1) /\ nextSlot' = nextSlot
        BY <1>2, <3>2 DEF Construct
      <4> QED
        BY <4>1, <4>2, <4>3
    <3> QED
      BY <3>1, <3>2
  <2>3. built' \in Nat
    BY <1>0, <1>2 DEF Construct, LocalTypeOK
  <2>4. object' \in [Objects -> [kind : {"none", "Thread", "Object"}, slot : Nat,
                                 version : Nat, id : Nat]]
    BY <1>0, <1>2, <2>1, <2>3 DEF Construct, LocalTypeOK
  <2> QED
    BY <1>0, <1>2, <2>2, <2>3, <2>4 DEF Construct, LocalTypeOK
<1>3. ASSUME NEW o \in Objects, NEW p \in Objects, Swap(o, p)  PROVE LocalTypeOK'
  BY <1>0, <1>3 DEF Swap, LocalTypeOK
<1> QED
  BY <1>1, <1>2, <1>3

-----------------------------------------------------------------------------
(***************************************************************************)
(* What the chains have to do with the instances that are changed.         *)
(***************************************************************************)

\* Links that do not belong to a chain can change.
LEMMA ChainFrame ==
  ASSUME LocalTypeOK, LocalTypeOK', NEW o \in Objects, OwnerOk(o), head'[o] = head[o],
         \A a \in Chain(o) : heap'[a].next = heap[a].next
  PROVE  /\ Chain(o)' = Chain(o)
         /\ Acyclic(head[o], NextOf)'
<1>1. NextOf \in Nexts /\ NextOf' \in Nexts /\ head[o] \in Pointers
  BY DEF LocalTypeOK, NextOf, Nexts
<1>2. Chain(o) = Reach(head[o], NextOf) /\ Chain(o)' = Reach(head[o], NextOf')
  BY DEF Chain, NextOf
<1>3. \A a \in Reach(head[o], NextOf) : NextOf'[a] = NextOf[a]
  BY <1>2, ChainBasics DEF NextOf
<1>4. Acyclic(head[o], NextOf)
  BY DEF OwnerOk
<1>5. Reach(head[o], NextOf') = Reach(head[o], NextOf) /\ Acyclic(head[o], NextOf')
  BY <1>1, <1>3, <1>4, ReachFrame
<1> QED
  BY <1>2, <1>5

\* An object that does not move, while no link of its instances changes.
LEMMA OwnedFrame ==
  ASSUME LocalTypeOK, LocalTypeOK', NEW o \in Objects, OwnerOk(o),
         head'[o] = head[o], owner'[o] = owner[o], cur'[o] = cur[o],
         object'[o].kind = object[o].kind,
         \A a \in Chain(o) : heap'[a].next = heap[a].next
  PROVE  /\ Owned(o)' = Owned(o) /\ Chain(o)' = Chain(o) /\ OwnerOk(o)'
         /\ InDestructor(o) <=> InDestructor(o)'
<1>1. Chain(o)' = Chain(o) /\ Acyclic(head[o], NextOf)'
  BY ChainFrame
<1>2. Owned(o)' = Owned(o) /\ (InDestructor(o) <=> InDestructor(o)')
  BY <1>1 DEF Owned, InDestructor
<1>3. OwnerOk(o)'
  BY <1>1 DEF OwnerOk
<1> QED
  BY <1>1, <1>2, <1>3

\* The instances of different objects are different ones.
LEMMA OwnedApart ==
  ASSUME IInv, NEW o \in Objects, NEW p \in Objects, o # p, NEW a \in Owned(o)
  PROVE  a \notin Owned(p)
<1>1. \A q \in Objects : \A b \in Owned(q) : Exists(q) /\ heap[b].object = object[q].id
  <2>1. ASSUME NEW q \in Objects, NEW b \in Owned(q)  PROVE Exists(q)
    <3>1. OwnerOk(q) /\ LocalTypeOK
      BY DEF IInv
    <3>2. object[q].kind # "Object" => Owned(q) = {}
      BY <3>1, ChainBasics DEF Owned, OwnerOk
    <3> QED
      BY <3>2 DEF Exists
  <2> QED
    BY <2>1 DEF IInv, OwnedOk
<1> QED
  BY <1>1 DEF IInv, SlotsApart

\* Nobody but its object follows an instance of an object that is marked.
LEMMA OrphanIsLost ==
  ASSUME IInv, NEW o \in Objects, NEW x \in Owned(o), heap[x].expired
  PROVE  /\ x \in Addresses
         /\ \A t \in LocalThreads : new[t] # x
         /\ \A t \in LocalThreads, s \in Slots : Holds(t, s) => At(t, s) # x
<1>1. x \in Addresses
  BY ChainBasics DEF Owned, OwnerOk, IInv
<1>2. ASSUME NEW t \in LocalThreads  PROVE new[t] # x
  BY <1>1, NullIsNoAddress DEF IInv, ThreadOk, Ends, Accesses
<1>3. ASSUME NEW t \in LocalThreads, NEW s \in Slots, Holds(t, s)  PROVE At(t, s) # x
  BY <1>3 DEF IInv, HeldOk
<1> QED
  BY <1>1, <1>2, <1>3

\* What is in a slot is not being registered, unless the thread is about to push it.
LEMMA HeldIsNotNew ==
  ASSUME IInv, NEW t \in LocalThreads, localPc[t] \notin {"load", "push"},
         NEW s \in Slots, Holds(t, s)
  PROVE  \A u \in LocalThreads : new[u] # At(t, s)
<1>1. SUFFICES ASSUME NEW u \in LocalThreads, new[u] = At(t, s)  PROVE FALSE
  OBVIOUS
<1>2. HeldOk(t, s) /\ At(t, s) # Null /\ ThreadOk(u) /\ ThreadOk(t)
  BY DEF IInv, Holds
<1>3. localPc[u] \in {"register", "load", "push"} /\ Accesses(u)
  BY <1>1, <1>2 DEF ThreadOk, Ends
<1>4. PICK r \in Slots : r = object[arg[u]].slot
  BY <1>3, SlotTyped DEF Accesses
<1>5. CASE localPc[u] = "register"
  BY <1>1, <1>3, <1>5 DEF Accesses
<1>6. CASE localPc[u] # "register"
  <2>1. At(u, r) = At(t, s)
    BY <1>1, <1>3, <1>4, <1>6 DEF Accesses
  <2>2. Holds(u, r)
    BY <1>2, <1>3, <2>1 DEF Holds, Accesses
  <2> QED
    BY <1>2, <1>3, <1>6, <2>1, <2>2 DEF HeldOk
<1> QED
  BY <1>5, <1>6

\* A slot that the end of a thread comes to.
LEMMA AtEnd ==
  ASSUME IInv, NEW t \in LocalThreads, localPc[t] \in {"end", "mark"}, seen[t] \in Slots
  PROVE  /\ Ending(t) = At(t, seen[t]) /\ Started(t) /\ Ending(t) \in Pointers
         /\ Ending(t) # Null => Holds(t, seen[t])
         /\ seen[t] \in Nat /\ seen[t] + 1 \in 0 .. MaxObjects
         /\ \A s \in Slots : s \in Nat /\ (s >= seen[t] + 1 <=> s >= seen[t] /\ s # seen[t])
<1>1. Started(t) /\ LocalTypeOK
  BY DEF IInv, ThreadOk, Ends
<1>2. localState[t].at \in [Slots -> Pointers]
  BY <1>1 DEF LocalTypeOK
<1>3. Ending(t) = At(t, seen[t]) /\ Ending(t) \in Pointers
  BY <1>2 DEF Ending, At
<1>4. seen[t] \in Nat /\ seen[t] + 1 \in 0 .. MaxObjects
  BY MaxObjectsAssumption DEF Slots
<1>5. \A s \in Slots : s \in Nat /\ (s >= seen[t] + 1 <=> s >= seen[t] /\ s # seen[t])
  BY <1>4 DEF Slots
<1> QED
  BY <1>1, <1>3, <1>4, <1>5 DEF Holds

\* The end of a thread deletes what no object follows.
LEMMA ThreadDeletes ==
  ASSUME IInv, LocalTypeOK', NEW t \in LocalThreads, localPc[t] \in {"end", "mark"}, seen[t] \in Slots,
         Ending(t) # Null, heap[Ending(t)].kind = "Thread" \/ heap[Ending(t)].expired,
         heap' = Deleted(Ending(t)), seen'[t] = seen[t] + 1, localPc'[t] = "end",
         UNCHANGED <<objectVars, ownerVars, localState, arg, new, head>>,
         \A u \in LocalThreads \ {t} :
           localState'[u] = localState[u] /\ localPc'[u] = localPc[u] /\ seen'[u] = seen[u]
  PROVE  IInv'
<1> DEFINE x == Ending(t)
<1>0. LocalTypeOK
  BY DEF IInv
<1>1. /\ x = At(t, seen[t]) /\ Started(t) /\ x \in Addresses /\ Holds(t, seen[t])
      /\ seen[t] \in Nat /\ seen[t] + 1 \in 0 .. MaxObjects
      /\ \A s \in Slots : s \in Nat /\ (s >= seen[t] + 1 <=> s >= seen[t] /\ s # seen[t])
  BY AtEnd
<1>2. HeldOk(t, seen[t])
  BY <1>1 DEF IInv
<1> HIDE DEF x
<1>3. \A o \in Objects : x \notin Owned(o)
  <2>1. CASE heap[x].expired
    BY <1>1, <1>2, <2>1 DEF HeldOk
  <2>2. CASE heap[x].kind = "Thread"
    BY <2>2 DEF IInv, OwnedOk
  <2> QED
    BY <2>1, <2>2 DEF x
<1>4. \A b \in Addresses \ {x} : heap'[b] = heap[b]
  BY <1>0 DEF Deleted, LocalTypeOK, x
<1>5. ~heap'[x].live
  BY <1>0, <1>1 DEF Deleted, LocalTypeOK, x, NoInstance
<1>6. \A o \in Objects : /\ Owned(o)' = Owned(o) \ {x} /\ OwnerOk(o)'
                         /\ InDestructor(o) <=> InDestructor(o)'
  <2>1. SUFFICES ASSUME NEW o \in Objects
        PROVE  Owned(o)' = Owned(o) /\ OwnerOk(o)' /\ (InDestructor(o) <=> InDestructor(o)')
    BY <1>3
  <2>2. OwnerOk(o) /\ Chain(o) \subseteq Addresses \ {x}
    BY <1>0, <1>3, ChainBasics DEF IInv, Owned
  <2>3. \A a \in Chain(o) : heap'[a].next = heap[a].next
    BY <1>4, <2>2
  <2> QED
    BY <1>0, <2>2, <2>3, OwnedFrame DEF objectVars, ownerVars
<1>7. \A u \in LocalThreads : new[u] # x /\ new'[u] = new[u]
  BY <1>1, HeldIsNotNew
<1>8. ThreadOk(t)'
  <2>1. arg[t] = Null /\ new[t] = Null
    BY DEF IInv, ThreadOk, Ends
  <2> QED
    BY <1>1, <2>1 DEF ThreadOk, Ends, Started
<1>9. \A u \in LocalThreads \ {t} : SameThread(u)
  BY DEF SameThread
<1>10. ASSUME NEW u \in LocalThreads, NEW s \in Slots
       PROVE  /\ Holds(u, s)' <=> Holds(u, s) /\ At(u, s) # x
              /\ At(u, s) = At(u, s)' /\ StartOf(u) = StartOf(u)'
  <2>1. At(u, s) = At(u, s)' /\ StartOf(u) = StartOf(u)' /\ (Started(u) <=> Started(u)')
    BY DEF At, StartOf, Started
  <2>2. CASE u = t
    <3>1. Holds(t, s)' <=> Holds(t, s) /\ s # seen[t]
      BY <1>1, <2>1, <2>2 DEF Holds
    <3>2. Holds(t, s) /\ At(t, s) = x => s = seen[t]
      BY <1>1, <1>2 DEF HeldOk
    <3> QED
      BY <1>1, <2>1, <2>2, <3>1, <3>2
  <2>3. CASE u # t
    <3>1. Holds(u, s) => At(u, s) # x
      BY <1>1, <1>2, <2>3 DEF HeldOk
    <3>2. Holds(u, s)' <=> Holds(u, s)
      BY <1>9, <2>3, ThreadSame
    <3> QED
      BY <2>1, <3>1, <3>2
  <2> QED
    BY <2>2, <2>3
<1>11. \A b \in Addresses \ {x} : SameInstance(b)
  BY <1>4 DEF SameInstance
<1> QED
  BY <1>1, <1>5, <1>6, <1>7, <1>8, <1>9, <1>10, <1>11, Deletes

-----------------------------------------------------------------------------
(***************************************************************************)
(* The steps of threads, one by one.                                       *)
(***************************************************************************)

LEMMA StartThreadStep ==
  ASSUME IInv, NEW t \in LocalThreads, StartThread(t)  PROVE IInv'
<1>1. LocalTypeOK' /\ LocalTypeOK /\ ThreadOk(t)
  BY ThreadTypes DEF IInv
<1>2. \A s \in Slots : ~Holds(t, s) /\ ~Holds(t, s)'
  <2>1. \A s \in Slots : localState'[t].at[s] = Null
    BY <1>1 DEF StartThread, LocalTypeOK
  <2> QED
    BY <2>1 DEF StartThread, Holds, At
<1>3. ThreadOk(t)'
  BY <1>1 DEF StartThread, ThreadOk, Ends
<1>4. \A u \in LocalThreads \ {t} :
        localState'[u] = localState[u] /\ localPc'[u] = localPc[u] /\ seen'[u] = seen[u]
  BY <1>1 DEF StartThread, LocalTypeOK
<1> QED
  BY <1>1, <1>2, <1>3, <1>4, ThreadMoves DEF StartThread

LEMMA EndThreadStep ==
  ASSUME IInv, NEW t \in LocalThreads, EndThread(t)  PROVE IInv'
<1>1. LocalTypeOK' /\ LocalTypeOK /\ ThreadOk(t)
  BY ThreadTypes DEF IInv
<1>2. localPc[t] = "idle" /\ localPc'[t] = "end" /\ seen'[t] = 0
  BY <1>1 DEF EndThread, Proceed, LocalTypeOK
<1>3. \A s \in Slots : /\ Holds(t, s) <=> Holds(t, s)'
                       /\ At(t, s) = At(t, s)' /\ StartOf(t) = StartOf(t)'
  BY <1>2 DEF EndThread, Holds, At, Started, StartOf, Slots
<1>4. ThreadOk(t)'
  BY <1>1, <1>2, MaxObjectsAssumption DEF EndThread, ThreadOk, Ends, Started
<1>5. \A u \in LocalThreads \ {t} :
        localState'[u] = localState[u] /\ localPc'[u] = localPc[u] /\ seen'[u] = seen[u]
  BY <1>1 DEF EndThread, Proceed, LocalTypeOK
<1> QED
  BY <1>1, <1>3, <1>4, <1>5, ThreadMoves DEF EndThread

LEMMA FinishThreadStep ==
  ASSUME IInv, NEW t \in LocalThreads, FinishThread(t)  PROVE IInv'
<1>1. LocalTypeOK' /\ LocalTypeOK /\ ThreadOk(t)
  BY ThreadTypes DEF IInv, ThreadStep
<1>2. /\ localPc[t] = "end" /\ localPc'[t] = "idle" /\ seen'[t] = Null
      /\ seen[t] \in 0 .. MaxObjects /\ seen[t] \notin Slots
  BY <1>1 DEF FinishThread, Proceed, LocalTypeOK, ThreadOk, Ends
<1>3. \A s \in Slots : ~Holds(t, s) /\ ~Holds(t, s)'
  <2>1. ~Started(t)'
    BY <1>1 DEF FinishThread, Started, LocalTypeOK
  <2>2. seen[t] = MaxObjects
    BY <1>2, MaxObjectsAssumption DEF Slots
  <2>3. \A s \in Slots : ~(s >= seen[t])
    BY <2>2, MaxObjectsAssumption DEF Slots
  <2> QED
    BY <1>2, <2>1, <2>3 DEF Holds
<1>4. ThreadOk(t)'
  BY <1>1, <1>2 DEF FinishThread, ThreadOk, Ends
<1>5. \A u \in LocalThreads \ {t} :
        localState'[u] = localState[u] /\ localPc'[u] = localPc[u] /\ seen'[u] = seen[u]
  BY <1>1 DEF FinishThread, Proceed, LocalTypeOK
<1> QED
  BY <1>1, <1>3, <1>4, <1>5, ThreadMoves DEF FinishThread

LEMMA LoadHeadStep ==
  ASSUME IInv, NEW t \in LocalThreads, LoadHead(t)  PROVE IInv'
<1>1. LocalTypeOK' /\ LocalTypeOK /\ ThreadOk(t)
  BY ThreadTypes DEF IInv, ThreadStep
<1>2. localPc[t] = "load" /\ localPc'[t] = "push" /\ seen'[t] = head[arg[t]]
  BY <1>1 DEF LoadHead, Proceed, LocalTypeOK
<1>3. \A u \in LocalThreads : \A s :
        /\ Holds(u, s) <=> Holds(u, s)'
        /\ At(u, s) = At(u, s)' /\ StartOf(u) = StartOf(u)'
        /\ Started(u) <=> Started(u)'
  <2>1. \A u \in LocalThreads \ {t} : localPc'[u] = localPc[u] /\ seen'[u] = seen[u]
    BY <1>1 DEF LoadHead, Proceed, LocalTypeOK
  <2>2. localState' = localState
    BY DEF LoadHead
  <2> QED
    BY <1>2, <2>1, <2>2 DEF Holds, At, Started, StartOf
<1>4. \A o \in Objects : Owned(o) = Owned(o)' /\ (Exists(o) <=> Exists(o)')
                         /\ (InDestructor(o) <=> InDestructor(o)')
  BY DEF LoadHead, objectVars, ownerVars, Owned, Chain, Exists, InDestructor
<1>5. ThreadOk(t)'
  <2>1. Accesses(t)
    BY <1>1, <1>2 DEF ThreadOk
  <2>2. head[arg[t]] \in Pointers
    BY <1>1, <2>1 DEF Accesses, LocalTypeOK
  <2>3. PICK o \in Objects : o = arg[t]
    BY <2>1 DEF Accesses
  <2>4. /\ arg' = arg /\ new' = new /\ heap' = heap /\ object' = object
        /\ localPc[t] = "load" /\ localPc'[t] = "push" /\ seen'[t] \in Pointers
    BY <1>2, <2>2 DEF LoadHead, objectVars
  <2>5. At(t, object[o].slot)' = At(t, object[o].slot)
    BY <1>3, <2>4
  <2>6. /\ Started(t) /\ Exists(o) /\ ~InDestructor(o)
        /\ \A p \in Objects : new[t] \notin Owned(p)
        /\ object[o].kind = "Object" /\ At(t, object[o].slot) = new[t]
    BY <2>1, <2>3, <2>4 DEF Accesses
  <2>7. /\ Started(t)' /\ Exists(o)' /\ ~InDestructor(o)' /\ StartOf(t)' = StartOf(t)
        /\ \A p \in Objects : new[t] \notin Owned(p)'
    BY <1>3, <1>4, <2>6
  <2>8. Accesses(t)'
    BY <2>1, <2>3, <2>4, <2>5, <2>6, <2>7 DEF Accesses
  <2> QED
    BY <1>2, <2>8 DEF ThreadOk
<1>6. \A u \in LocalThreads \ {t} :
        localState'[u] = localState[u] /\ localPc'[u] = localPc[u] /\ seen'[u] = seen[u]
  BY <1>1 DEF LoadHead, Proceed, LocalTypeOK
<1>7. \A s \in Slots : /\ Holds(t, s) <=> Holds(t, s)'
                       /\ Holds(t, s) => At(t, s) = At(t, s)' /\ StartOf(t) = StartOf(t)'
  BY <1>3
<1>8. UNCHANGED <<objectVars, ownerVars, arg, new, head, heap>>
  BY DEF LoadHead
<1> QED
  BY <1>1, <1>5, <1>6, <1>7, <1>8, ThreadMoves

LEMMA EndInstanceStep ==
  ASSUME IInv, NEW t \in LocalThreads, EndInstance(t)  PROVE IInv'
<1>1. LocalTypeOK' /\ LocalTypeOK /\ ThreadOk(t)
  BY ThreadTypes DEF IInv, ThreadStep
<1>2. localPc[t] = "end" /\ seen[t] \in Slots /\ localState' = localState
  BY DEF EndInstance
<1>3. /\ Ending(t) = At(t, seen[t]) /\ Started(t) /\ Ending(t) \in Pointers
      /\ Ending(t) # Null => Holds(t, seen[t])
      /\ seen[t] \in Nat /\ seen[t] + 1 \in 0 .. MaxObjects
      /\ \A s \in Slots : s \in Nat /\ (s >= seen[t] + 1 <=> s >= seen[t] /\ s # seen[t])
  BY <1>2, AtEnd
<1>4. \A u \in LocalThreads \ {t} :
        localState'[u] = localState[u] /\ localPc'[u] = localPc[u] /\ seen'[u] = seen[u]
  BY <1>1 DEF EndInstance, Proceed, NextSlot, LocalTypeOK
<1>5. CASE Ending(t) = Null
  <2>1. seen'[t] = seen[t] + 1 /\ localPc'[t] = "end" /\ heap' = heap
    BY <1>1, <1>2, <1>5 DEF EndInstance, NextSlot, LocalTypeOK
  <2>2. \A s \in Slots : /\ Holds(t, s) <=> Holds(t, s)'
                         /\ At(t, s) = At(t, s)' /\ StartOf(t) = StartOf(t)'
    BY <1>2, <1>3, <1>5, <2>1 DEF Holds, At, Started, StartOf
  <2>3. ThreadOk(t)'
    BY <1>1, <1>2, <1>3, <2>1 DEF EndInstance, ThreadOk, Ends, Started
  <2> QED
    BY <1>1, <1>4, <2>1, <2>2, <2>3, ThreadMoves DEF EndInstance
<1>6. CASE Ending(t) # Null /\ (heap[Ending(t)].kind = "Thread" \/ heap[Ending(t)].expired)
  <2> DEFINE x == Ending(t)
  <2>1. seen'[t] = seen[t] + 1 /\ localPc'[t] = "end" /\ heap' = Deleted(x)
    BY <1>1, <1>2, <1>6 DEF EndInstance, NextSlot, LocalTypeOK
  <2>2. x \in Addresses /\ Holds(t, seen[t]) /\ HeldOk(t, seen[t]) /\ x = At(t, seen[t])
    BY <1>2, <1>3, <1>6 DEF IInv
  <2> QED
    BY <1>1, <1>2, <1>3, <1>4, <1>6, <2>1, <2>2, ThreadDeletes DEF EndInstance
<1>7. CASE Ending(t) # Null /\ ~(heap[Ending(t)].kind = "Thread" \/ heap[Ending(t)].expired)
  <2>1. seen' = seen /\ localPc'[t] = "mark" /\ heap' = heap
    BY <1>1, <1>2, <1>7 DEF EndInstance, Proceed, LocalTypeOK
  <2>2. \A s \in Slots : /\ Holds(t, s) <=> Holds(t, s)'
                         /\ At(t, s) = At(t, s)' /\ StartOf(t) = StartOf(t)'
    BY <1>2, <1>3, <2>1 DEF Holds, At, Started, StartOf
  <2>3. Ending(t) \in Addresses /\ HeldOk(t, seen[t])
    BY <1>2, <1>3, <1>7 DEF IInv
  <2>4. heap[Ending(t)].live
    BY <1>3, <2>3 DEF HeldOk
  <2>5. heap[Ending(t)].kind = "Object"
    BY <1>1, <1>7, <2>3, <2>4 DEF IInv, LiveOk, LocalTypeOK
  <2>6. ThreadOk(t)'
    BY <1>1, <1>2, <1>3, <1>7, <2>1, <2>5 DEF EndInstance, ThreadOk, Ends, Started, Ending
  <2> QED
    BY <1>1, <1>4, <2>1, <2>2, <2>6, ThreadMoves DEF EndInstance
<1> QED
  BY <1>5, <1>6, <1>7

LEMMA MarkInstanceStep ==
  ASSUME IInv, NEW t \in LocalThreads, MarkInstance(t)  PROVE IInv'
<1>1. LocalTypeOK' /\ LocalTypeOK /\ ThreadOk(t)
  BY ThreadTypes DEF IInv, ThreadStep
<1>2. /\ localPc[t] = "mark" /\ localPc'[t] = "end" /\ seen'[t] = seen[t] + 1
      /\ Ending(t) # Null /\ seen[t] \in Slots /\ arg[t] = Null /\ new[t] = Null
      /\ heap[Ending(t)].kind = "Object"
  BY <1>1 DEF MarkInstance, Proceed, NextSlot, LocalTypeOK, ThreadOk, Ends
<1>3. \A u \in LocalThreads \ {t} :
        localState'[u] = localState[u] /\ localPc'[u] = localPc[u] /\ seen'[u] = seen[u]
  BY <1>1 DEF MarkInstance, Proceed, NextSlot, LocalTypeOK
<1>4. CASE heap[Ending(t)].expired
  BY <1>1, <1>2, <1>3, <1>4, ThreadDeletes DEF MarkInstance
<1>5. CASE ~heap[Ending(t)].expired
  <2>0. PICK x \in Addresses : x = Ending(t)
    BY <1>2, AtEnd
  <2>1. heap' = [heap EXCEPT ![x].expired = TRUE] /\ ~heap[x].expired /\ heap[x].kind = "Object"
    BY <1>2, <1>5, <2>0 DEF MarkInstance
  <2>2. /\ x = At(t, seen[t]) /\ Started(t) /\ x \in Addresses /\ Holds(t, seen[t])
        /\ seen[t] \in Nat /\ seen[t] + 1 \in 0 .. MaxObjects
        /\ \A s \in Slots : s \in Nat /\ (s >= seen[t] + 1 <=> s >= seen[t] /\ s # seen[t])
    BY <1>2, <2>0, AtEnd
  <2>3. /\ \A b \in Addresses \ {x} : heap'[b] = heap[b]
        /\ heap'[x] = [heap[x] EXCEPT !.expired = TRUE] /\ heap[x] \in Instances
    BY <1>1, <2>1, <2>2 DEF LocalTypeOK, Instances
  <2>4. /\ heap'[x].expired /\ heap'[x].live = heap[x].live /\ heap'[x].kind = heap[x].kind
        /\ heap'[x].version = heap[x].version /\ heap'[x].object = heap[x].object
        /\ heap'[x].next = heap[x].next
    BY <2>3 DEF Instances
  <2>5. HeldOk(t, seen[t]) /\ \A u \in LocalThreads : new[u] # x
    BY <1>2, <2>2, HeldIsNotNew DEF IInv
  <2>6. PICK p \in Objects : x \in Owned(p)
    BY <2>1, <2>2, <2>5 DEF HeldOk
  <2>7. \A o \in Objects : /\ Owned(o)' = Owned(o) /\ OwnerOk(o)'
                           /\ InDestructor(o) <=> InDestructor(o)'
    <3>1. SUFFICES ASSUME NEW o \in Objects
          PROVE  Owned(o)' = Owned(o) /\ OwnerOk(o)' /\ (InDestructor(o) <=> InDestructor(o)')
      OBVIOUS
    <3>2. OwnerOk(o) /\ \A a \in Chain(o) : heap'[a].next = heap[a].next
      BY <1>1, <2>3, <2>4, ChainBasics DEF IInv
    <3> QED
      BY <1>1, <3>2, OwnedFrame DEF MarkInstance, objectVars, ownerVars
  <2>8. ASSUME NEW o \in Objects, x \in Owned(o)  PROVE OwnedPlace(o, x)'
    <3>1. heap[x].live /\ heap[x].object = object[o].id
      BY <2>8 DEF IInv, OwnedOk
    <3> QED
      BY <2>1, <2>4, <3>1 DEF OwnedPlace, MarkInstance, objectVars
  <2>9. LiveOk(x)'
    <3>1. LiveOk(x) /\ built' = built
      BY <2>2 DEF IInv, MarkInstance, objectVars
    <3> QED
      BY <2>4, <2>6, <2>7, <3>1 DEF LiveOk
  <2>10. ThreadOk(t)'
    BY <1>2, <2>2 DEF MarkInstance, ThreadOk, Ends, Started
  <2>11. \A u \in LocalThreads \ {t} : SameThread(u)
    BY <1>3 DEF SameThread, MarkInstance
  <2>12. ASSUME NEW u \in LocalThreads, NEW s \in Slots
         PROVE  /\ Holds(u, s)' <=> Holds(u, s) /\ At(u, s) # x
                /\ At(u, s) = At(u, s)' /\ StartOf(u) = StartOf(u)'
    <3>1. At(u, s) = At(u, s)' /\ StartOf(u) = StartOf(u)' /\ (Started(u) <=> Started(u)')
      BY DEF At, StartOf, Started, MarkInstance
    <3>2. CASE u = t
      <4>1. Holds(t, s)' <=> Holds(t, s) /\ s # seen[t]
        BY <1>2, <2>2, <3>1, <3>2 DEF Holds
      <4>2. Holds(t, s) /\ At(t, s) = x => s = seen[t]
        BY <2>2, <2>5 DEF HeldOk
      <4> QED
        BY <2>2, <3>1, <3>2, <4>1, <4>2
    <3>3. CASE u # t
      <4>1. Holds(u, s) => At(u, s) # x
        BY <2>2, <2>5, <3>3 DEF HeldOk
      <4>2. Holds(u, s)' <=> Holds(u, s)
        BY <2>11, <3>3, ThreadSame
      <4> QED
        BY <3>1, <4>1, <4>2
    <3> QED
      BY <3>2, <3>3
  <2>13. \A b \in Addresses \ {x} : SameInstance(b)
    BY <2>3 DEF SameInstance
  <2>14. UNCHANGED objectVars /\ \A u \in LocalThreads : new'[u] = new[u]
    BY DEF MarkInstance
  <2> QED
    BY <1>1, <2>2, <2>5, <2>7, <2>8, <2>9, <2>10, <2>11, <2>12, <2>13, <2>14, InstanceChanges
<1> QED
  BY <1>4, <1>5

\* What a thread finds in the slot of a new instance belongs to nobody else.
LEMMA LeftoverIsLost ==
  ASSUME IInv, NEW t \in LocalThreads, localPc[t] = "register",
         NEW o \in Objects, o = arg[t], NEW r \in Slots, r = object[o].slot, Holds(t, r)
  PROVE  /\ At(t, r) \in Addresses
         /\ At(t, r) # new[t]
         /\ \A u \in LocalThreads : new[u] # At(t, r)
         /\ \A p \in Objects : At(t, r) \notin Owned(p)
         /\ \A u \in LocalThreads, s \in Slots :
              Holds(u, s) /\ (u # t \/ s # r) => At(u, s) # At(t, r)
<1>1. HeldOk(t, r) /\ HeldAge(t, r) /\ ThreadOk(t) /\ LocalTypeOK
  BY DEF IInv
<1>2. Accesses(t)
  BY <1>1 DEF ThreadOk
<1>3. heap[At(t, r)].version # object[o].version /\ Exists(o)
  BY <1>2 DEF Accesses
<1>4. At(t, r) \in Addresses
  BY <1>1 DEF Holds, At, LocalTypeOK
<1>5. \A u \in LocalThreads : new[u] # At(t, r)
  BY HeldIsNotNew
<1>6. ASSUME NEW p \in Objects, At(t, r) \in Owned(p)  PROVE FALSE
  <2>1. Exists(p)
    <3>1. OwnerOk(p)
      BY DEF IInv
    <3>2. object[p].kind # "Object" => Owned(p) = {}
      BY <1>1, <3>1, ChainBasics DEF Owned, OwnerOk
    <3> QED
      BY <1>6, <3>2 DEF Exists
  <2>2. heap[At(t, r)].object = object[p].id
    BY <1>6 DEF IInv, OwnedOk
  <2>3. object[p].slot = r /\ heap[At(t, r)].version = object[p].version
    BY <1>1, <2>1, <2>2 DEF HeldAge
  <2>4. p = o
    BY <1>3, <2>1, <2>3 DEF IInv, SlotsApart
  <2> QED
    BY <1>3, <2>3, <2>4
<1> QED
  BY <1>1, <1>4, <1>5, <1>6 DEF HeldOk

LEMMA RegisterStep ==
  ASSUME IInv, NEW t \in LocalThreads, Register(t)  PROVE IInv'
<1>1. LocalTypeOK' /\ LocalTypeOK /\ Accesses(t) /\ localPc[t] = "register"
  BY ThreadTypes DEF IInv, ThreadStep, ThreadOk, Register
<1>2. PICK o \in Objects, r \in Slots, n \in Addresses :
        o = arg[t] /\ r = object[o].slot /\ n = new[t]
  BY <1>1, SlotTyped DEF Accesses
<1>3. /\ Started(t) /\ Exists(o) /\ ~InDestructor(o)
      /\ heap[n].live /\ ~heap[n].expired /\ heap[n].start = StartOf(t)
      /\ heap[n].kind = object[o].kind /\ heap[n].version = object[o].version
      /\ heap[n].object = object[o].id
      /\ \A p \in Objects : n \notin Owned(p)
      /\ \A u \in LocalThreads : new[u] = n => u = t
      /\ \A u \in LocalThreads, s \in Slots : Holds(u, s) => At(u, s) # n
  BY <1>1, <1>2 DEF Accesses
<1>4. \A s : Holds(t, s) <=> At(t, s) # Null
  BY <1>1, <1>3 DEF Holds
<1>5. PICK a \in Pointers : a = At(t, r)
  BY <1>1, <1>3 DEF LocalTypeOK, At
<1>6. a # Null => /\ a \in Addresses /\ a # n
                  /\ \A u \in LocalThreads : new[u] # a
                  /\ \A p \in Objects : a \notin Owned(p)
                  /\ \A u \in LocalThreads, s \in Slots :
                       Holds(u, s) /\ (u # t \/ s # r) => At(u, s) # a
  BY <1>1, <1>2, <1>4, <1>5, LeftoverIsLost
<1>7. /\ \A b \in Addresses \ {a} : heap'[b] = heap[b]
      /\ a # Null => ~heap'[a].live
  <2>1. heap' = IF a = Null THEN heap ELSE Deleted(a)
    BY <1>2, <1>5 DEF Register, DeleteLeftover, At
  <2>2. a # Null => a \in Addresses
    BY <1>5 DEF Pointers
  <2> QED
    BY <1>1, <2>1, <2>2, Domains DEF Deleted, NoInstance
<1>8. /\ localState'[t] = [localState[t] EXCEPT !.at = [@ EXCEPT ![r] = n]]
      /\ \A u \in LocalThreads \ {t} : SameThread(u)
  BY <1>1, <1>2 DEF Register, Return, Proceed, LocalTypeOK, SameThread
<1>9. /\ At(t, r)' = n /\ StartOf(t)' = StartOf(t)
      /\ \A s \in Slots \ {r} : At(t, s)' = At(t, s)
      /\ Started(t)' /\ localPc'[t] \in {"idle", "load"}
  <2>1. localState[t] \in [start : Nat, at : [Slots -> Pointers]]
    BY <1>1, <1>3 DEF LocalTypeOK
  <2>2. localState'[t].start = localState[t].start /\ localState'[t].at[r] = n
        /\ \A s \in Slots \ {r} : localState'[t].at[s] = localState[t].at[s]
    BY <1>8, <2>1
  <2>3. localPc'[t] \in {"idle", "load"}
    BY <1>1 DEF Register, Return, Proceed, LocalTypeOK
  <2>4. Started(t)'
    <3>1. ASSUME localState'[t] = <<>>  PROVE FALSE
      <4>1. localState'[t] \in [start : Nat, at : [Slots -> Pointers]]
        BY <1>8, <2>1
      <4>2. DOMAIN localState'[t] = {"start", "at"}
        BY <4>1
      <4>3. DOMAIN <<>> = {}
        OBVIOUS
      <4> QED
        BY <3>1, <4>2, <4>3
    <3> QED
      BY <3>1 DEF Started
  <2> QED
    BY <2>2, <2>3, <2>4 DEF At, StartOf
<1>10. n # Null
  BY NullIsNoAddress
<1>11. /\ Holds(t, r)'
       /\ \A s \in Slots \ {r} : Holds(t, s)' <=> Holds(t, s)
       /\ \A u \in LocalThreads \ {t} : \A s :
            (Holds(u, s)' <=> Holds(u, s)) /\ At(u, s)' = At(u, s) /\ StartOf(u)' = StartOf(u)
  <2>1. Holds(t, r)' /\ \A s \in Slots \ {r} : Holds(t, s)' <=> Holds(t, s)
    BY <1>1, <1>3, <1>9, <1>10 DEF Holds
  <2>2. ASSUME NEW u \in LocalThreads \ {t}, NEW s
        PROVE (Holds(u, s)' <=> Holds(u, s)) /\ At(u, s)' = At(u, s) /\ StartOf(u)' = StartOf(u)
    BY <1>8, ThreadSame
  <2> QED
    BY <2>1, <2>2
<1> DEFINE X == {n, a} \ {Null}
<1>12. X \in SUBSET Addresses /\ n \in X /\ \A x \in X : x = n \/ (x = a /\ a # Null)
  BY <1>6, <1>10
<1>13. \A p \in Objects : /\ Owned(p)' = Owned(p) /\ OwnerOk(p)'
                          /\ InDestructor(p) <=> InDestructor(p)'
                          /\ \A x \in X : x \notin Owned(p)
  <2>1. SUFFICES ASSUME NEW p \in Objects
        PROVE  /\ Owned(p)' = Owned(p) /\ OwnerOk(p)' /\ (InDestructor(p) <=> InDestructor(p)')
               /\ \A x \in X : x \notin Owned(p)
    OBVIOUS
  <2>2. \A x \in X : x \notin Owned(p)
    BY <1>3, <1>6, <1>12
  <2>3. OwnerOk(p) /\ Chain(p) \subseteq Addresses \ {a}
    BY <1>1, <1>6, ChainBasics, NullIsNoAddress DEF IInv, Owned
  <2>4. \A b \in Chain(p) : heap'[b].next = heap[b].next
    BY <1>7, <2>3
  <2> QED
    BY <1>1, <2>2, <2>3, <2>4, OwnedFrame DEF Register, objectVars, ownerVars
<1>14. object' = object /\ freeSlots' = freeSlots /\ nextSlot' = nextSlot /\ built' = built
  BY DEF Register, objectVars
<1>15. heap'[n] = heap[n]
  BY <1>6, <1>7, <1>10
<1>16. IF object[o].kind = "Object"
       THEN localPc'[t] = "load" /\ arg'[t] = o /\ new'[t] = n
       ELSE localPc'[t] = "idle" /\ arg'[t] = Null /\ new'[t] = Null
  BY <1>1, <1>2 DEF Register, Return, Proceed, LocalTypeOK
<1>17. HeldAge(t, r)'
  <2>1. r < nextSlot /\ \A i \in DOMAIN freeSlots : freeSlots[i].slot # r
    BY <1>2, <1>3 DEF IInv, SlotsApart
  <2>2. \A p \in Objects : Exists(p) /\ p # o => object[p].slot # r /\ object[p].id # object[o].id
    BY <1>2, <1>3 DEF IInv, SlotsApart
  <2>3. object[o].version \in Nat
    BY <1>1 DEF LocalTypeOK
  <2>4. ASSUME NEW p \in Objects, Exists(p)
        PROVE  /\ object[p].slot = r => heap[n].version <= object[p].version
               /\ heap[n].object = object[p].id <=>
                    object[p].slot = r /\ heap[n].version = object[p].version
               /\ heap[n].object = object[p].id =>
                    heap[n].kind = object[p].kind /\ ~heap[n].expired
    BY <1>2, <1>3, <2>2, <2>3, <2>4
  <2> QED
    BY <1>9, <1>14, <1>15, <2>1, <2>4 DEF HeldAge, Exists
<1>18. HeldOk(t, r)'
  <2>1. \A u \in LocalThreads, s \in Slots : Holds(u, s)' /\ At(u, s)' = n => u = t /\ s = r
    BY <1>3, <1>9, <1>11
  <2>2. heap'[n].live /\ heap'[n].start = StartOf(t)' /\ ~heap'[n].expired
    BY <1>3, <1>9, <1>15
  <2>3. heap'[n].kind = "Object" => new'[t] = n
    BY <1>3, <1>15, <1>16
  <2> QED
    BY <1>9, <2>1, <2>2, <2>3 DEF HeldOk
<1>19. \A x \in X : LiveOk(x)'
  <2>1. LiveOk(n)'
    <3>1. LiveOk(n)
      BY DEF IInv
    <3> QED
      BY <1>9, <1>11, <1>14, <1>15, <3>1 DEF LiveOk
  <2>2. a # Null => LiveOk(a)'
    BY <1>7 DEF LiveOk
  <2> QED
    BY <1>12, <2>1, <2>2
<1>20. \A b \in Addresses \ X : SameInstance(b)
  BY <1>7, NullIsNoAddress DEF SameInstance
<1>21. \A u \in LocalThreads : /\ \A b \in Addresses \ X : new'[u] = b <=> new[u] = b
                               /\ u # t => SameThread(u) /\ new[u] \notin X
  <2>1. \A u \in LocalThreads \ {t} : SameThread(u) /\ new[u] \notin X
    BY <1>3, <1>6, <1>8, <1>12
  <2>2. \A b \in Addresses \ X : b # n /\ b # Null
    BY <1>12, NullIsNoAddress
  <2> QED
    BY <1>2, <1>16, <2>1, <2>2 DEF SameThread
<1>22. ThreadOk(t)'
  <2>1. CASE object[o].kind # "Object"
    BY <1>16, <2>1 DEF ThreadOk, Ends
  <2>2. CASE object[o].kind = "Object"
    <3>1. \A u \in LocalThreads : new'[u] = n => u = t
      BY <1>3, <1>8 DEF SameThread
    <3>2. \A p \in Objects : n \notin Owned(p)'
      BY <1>3, <1>13
    <3>3. Exists(o)' /\ ~InDestructor(o)'
      BY <1>3, <1>13, <1>14 DEF Exists
    <3>4. Accesses(t)'
      BY <1>2, <1>3, <1>9, <1>14, <1>15, <1>16, <2>2, <3>1, <3>2, <3>3 DEF Accesses
    <3> QED
      BY <1>16, <2>2, <3>4 DEF ThreadOk
  <2> QED
    BY <2>1, <2>2
<1>23. ASSUME NEW u \in LocalThreads, NEW s \in Slots
       PROVE  /\ Holds(u, s) /\ At(u, s) \notin X => Holds(u, s)' /\ At(u, s)' = At(u, s)
              /\ Holds(u, s)' /\ At(u, s)' \notin X =>
                   Holds(u, s) /\ At(u, s)' = At(u, s) /\ StartOf(u)' = StartOf(u)
              /\ Holds(u, s)' /\ At(u, s)' \in X => u = t /\ s = r
              /\ Holds(u, s)' /\ SameThread(u) /\ u # t => At(u, s) \notin X
  <2>1. CASE u = t /\ s = r
    <3>1. Holds(t, r) => At(t, r) \in X
      BY <1>5, <1>6 DEF Holds
    <3> QED
      BY <1>9, <1>12, <2>1, <3>1
  <2>2. CASE ~(u = t /\ s = r)
    <3>1. (Holds(u, s)' <=> Holds(u, s)) /\ At(u, s)' = At(u, s) /\ StartOf(u)' = StartOf(u)
      BY <1>9, <1>11, <2>2
    <3>2. Holds(u, s) => At(u, s) \notin X
      BY <1>3, <1>6, <1>12, <2>2
    <3> QED
      BY <2>2, <3>1, <3>2
  <2> QED
    BY <2>1, <2>2
<1>24. \A u \in LocalThreads : (SameThread(u) /\ new[u] \notin X) \/ ThreadOk(u)'
  BY <1>21, <1>22
<1>25. \A u \in LocalThreads, s \in Slots :
         /\ Holds(u, s) /\ At(u, s) \notin X => Holds(u, s)' /\ At(u, s)' = At(u, s)
         /\ Holds(u, s)' /\ At(u, s)' \notin X =>
              Holds(u, s) /\ At(u, s)' = At(u, s) /\ StartOf(u)' = StartOf(u)
         /\ Holds(u, s)' /\ At(u, s)' \in X => HeldAge(u, s)' /\ HeldOk(u, s)'
  BY <1>17, <1>18, <1>23
<1>26. \A u \in LocalThreads, s \in Slots : Holds(u, s)' /\ At(u, s) \in X /\ SameThread(u) =>
         /\ heap'[At(u, s)].kind = heap[At(u, s)].kind
         /\ heap'[At(u, s)].version = heap[At(u, s)].version
  <2>1. ~SameThread(t)
    BY <1>1, <1>9 DEF SameThread
  <2> QED
    BY <1>23, <2>1
<1>27. \A p \in Objects : /\ Owned(p)' \ X = Owned(p) \ X
                          /\ \A x \in X : x \in Owned(p)' => OwnedPlace(p, x)'
                          /\ OwnerOk(p)'
                          /\ InDestructor(p) <=> InDestructor(p)'
  BY <1>13
<1>28. UNCHANGED objectVars
  BY <1>14 DEF objectVars
<1> HIDE DEF X
<1> QED
  BY <1>1, <1>12, <1>19, <1>20, <1>21, <1>24, <1>25, <1>26, <1>27, <1>28, InstancesChange

\* An instance that is registered, as the thread that pushes it has it.
LEMMA PushStep ==
  ASSUME IInv, NEW t \in LocalThreads, Push(t)  PROVE IInv'
<1>1. LocalTypeOK' /\ LocalTypeOK /\ Accesses(t) /\ localPc[t] = "push"
  BY ThreadTypes DEF IInv, ThreadStep, ThreadOk, Push
<1>2. PICK o \in Objects, r \in Slots, n \in Addresses :
        o = arg[t] /\ r = object[o].slot /\ n = new[t]
  BY <1>1, SlotTyped DEF Accesses
<1>3. /\ Started(t) /\ Exists(o) /\ ~InDestructor(o)
      /\ heap[n].live /\ ~heap[n].expired /\ heap[n].start = StartOf(t)
      /\ heap[n].kind = object[o].kind /\ heap[n].version = object[o].version
      /\ heap[n].object = object[o].id
      /\ \A p \in Objects : n \notin Owned(p)
      /\ \A u \in LocalThreads : new[u] = n => u = t
      /\ object[o].kind = "Object" /\ At(t, r) = n
  BY <1>1, <1>2 DEF Accesses
<1>4. n # Null /\ Holds(t, r) /\ HeldAge(t, r) /\ HeldOk(t, r)
  BY <1>1, <1>3, NullIsNoAddress DEF Holds, IInv
<1>5. /\ \A b \in Addresses \ {n} : heap'[b] = heap[b]
      /\ heap'[n] = [heap[n] EXCEPT !.next = seen[t]]
  BY <1>1, <1>2 DEF Push, LocalTypeOK
<1>6. /\ heap'[n].next = seen[t] /\ heap'[n].live = heap[n].live /\ heap'[n].kind = heap[n].kind
      /\ heap'[n].version = heap[n].version /\ heap'[n].object = heap[n].object
      /\ heap'[n].expired = heap[n].expired /\ heap'[n].start = heap[n].start
  BY <1>1, <1>5 DEF LocalTypeOK
<1>7. /\ object' = object /\ freeSlots' = freeSlots /\ nextSlot' = nextSlot /\ built' = built
      /\ owner' = owner /\ cur' = cur /\ localState' = localState
  BY DEF Push, objectVars, ownerVars
<1>8. \A u \in LocalThreads \ {t} : SameThread(u)
  BY <1>1, SMTT(40) DEF Push, Return, Proceed, LocalTypeOK, SameThread
<1>9. localPc'[t] \in {"idle", "push"}
  BY <1>1 DEF Push, Return, Proceed, LocalTypeOK
<1>10. \A u \in LocalThreads, s \in Slots :
         /\ Holds(u, s)' <=> Holds(u, s)
         /\ At(u, s)' = At(u, s) /\ StartOf(u)' = StartOf(u)
  <2>1. \A s \in Slots : /\ Holds(t, s)' <=> Holds(t, s)
                         /\ At(t, s)' = At(t, s) /\ StartOf(t)' = StartOf(t)
    BY <1>1, <1>7, <1>9 DEF Holds, At, StartOf, Started
  <2>2. \A u \in LocalThreads \ {t} : \A s \in Slots :
           /\ Holds(u, s)' <=> Holds(u, s)
           /\ At(u, s)' = At(u, s) /\ StartOf(u)' = StartOf(u)
    BY <1>8, ThreadSame
  <2> QED
    BY <2>1, <2>2
<1>11. ASSUME NEW p \in Objects, head'[p] = head[p]
       PROVE  Owned(p)' = Owned(p) /\ OwnerOk(p)' /\ (InDestructor(p) <=> InDestructor(p)')
  <2>1. OwnerOk(p) /\ Chain(p) \subseteq Addresses \ {n}
    BY <1>1, <1>3, ChainBasics DEF IInv, Owned
  <2>2. \A b \in Chain(p) : heap'[b].next = heap[b].next
    BY <1>5, <2>1
  <2> QED
    BY <1>1, <1>7, <1>11, <2>1, <2>2, OwnedFrame
<1>12. \A b \in Addresses \ {n} : SameInstance(b)
  BY <1>5 DEF SameInstance
<1>13. HeldAge(t, r)'
  BY <1>3, <1>4, <1>6, <1>7, <1>10 DEF HeldAge, Exists, InDestructor
<1>14. /\ \A u \in LocalThreads, s \in Slots : Holds(u, s)' /\ At(u, s)' = n => u = t /\ s = r
       /\ heap'[n].live /\ heap'[n].start = StartOf(t)' /\ ~heap'[n].expired
  BY <1>2, <1>3, <1>4, <1>6, <1>10 DEF HeldOk
<1>15. LiveOk(n)'
  <2>1. LiveOk(n)
    BY DEF IInv
  <2> QED
    BY <1>2, <1>3, <1>4, <1>6, <1>7, <1>10, <2>1 DEF LiveOk
<1>16. UNCHANGED objectVars
  BY <1>7 DEF objectVars
<1>17. \A u \in LocalThreads, s \in Slots : Holds(u, s)' /\ At(u, s) = n /\ SameThread(u) =>
         /\ heap'[At(u, s)].kind = heap[At(u, s)].kind
         /\ heap'[At(u, s)].version = heap[At(u, s)].version
  BY <1>6
<1> DEFINE X == {n}
<1>18. CASE head[o] = seen[t]
  <2>1. /\ head'[o] = n /\ \A p \in Objects \ {o} : head'[p] = head[p]
        /\ localPc'[t] = "idle" /\ arg'[t] = Null /\ new'[t] = Null
    BY <1>1, <1>2, <1>18 DEF Push, Return, Proceed, LocalTypeOK
  <2>2. /\ Chain(o)' = Chain(o) \cup {n} /\ Acyclic(head[o], NextOf)'
    <3>1. /\ NextOf \in Nexts /\ NextOf' \in Nexts /\ head[o] \in Pointers
          /\ Acyclic(head[o], NextOf)
      BY <1>1, NextsTyped DEF LocalTypeOK, NextOf, Nexts, IInv, OwnerOk
    <3>2. /\ Chain(o) = Reach(head[o], NextOf) /\ Chain(o)' = Reach(n, NextOf')
          /\ Acyclic(head[o], NextOf)' <=> Acyclic(n, NextOf')
      BY <2>1 DEF Chain, NextOf
    <3>3. n \notin Chain(o) /\ Chain(o) \subseteq Addresses
      BY <1>1, <1>3, ChainBasics DEF Owned
    <3>4. /\ \A b \in Reach(head[o], NextOf) : NextOf'[b] = NextOf[b]
          /\ NextOf'[n] = head[o]
      BY <1>5, <1>6, <1>18, <3>2, <3>3 DEF NextOf
    <3>5. Reach(n, NextOf') = Reach(head[o], NextOf) \cup {n} /\ Acyclic(n, NextOf')
      BY <3>1, <3>2, <3>3, <3>4, ReachPush
    <3> QED
      BY <3>2, <3>5
  <2>3. /\ Owned(o)' = Owned(o) \cup {n}
        /\ InDestructor(o) <=> InDestructor(o)'
    BY <1>7, <2>2 DEF Owned, InDestructor
  <2>4. OwnerOk(o)'
    BY <1>3, <1>7, <2>2 DEF OwnerOk, IInv, InDestructor
  <2>5. OwnedPlace(o, n)'
    BY <1>3, <1>6, <1>7, <1>10, <1>4 DEF OwnedPlace
  <2>6. \A p \in Objects : /\ Owned(p)' \ X = Owned(p) \ X
                           /\ \A x \in X : x \in Owned(p)' => OwnedPlace(p, x)'
                           /\ OwnerOk(p)'
                           /\ InDestructor(p) <=> InDestructor(p)'
    <3>1. ASSUME NEW p \in Objects, p # o
          PROVE /\ Owned(p)' = Owned(p) /\ n \notin Owned(p)' /\ OwnerOk(p)'
                /\ InDestructor(p) <=> InDestructor(p)'
      BY <1>3, <1>11, <2>1, <3>1
    <3> QED
      BY <2>3, <2>4, <2>5, <3>1
  <2>7. HeldOk(t, r)'
    BY <1>3, <1>10, <1>14, <2>3 DEF HeldOk
  <2>8. ThreadOk(t)'
    BY <2>1 DEF ThreadOk, Ends
  <2>9. \A u \in LocalThreads :
          /\ \A b \in Addresses \ X : new'[u] = b <=> new[u] = b
          /\ (SameThread(u) /\ new[u] \notin X) \/ ThreadOk(u)'
    BY <1>2, <1>3, <1>8, <2>1, <2>8, NullIsNoAddress DEF SameThread
  <2>10. \A u \in LocalThreads, s \in Slots :
         /\ Holds(u, s) /\ At(u, s) \notin X => Holds(u, s)' /\ At(u, s)' = At(u, s)
         /\ Holds(u, s)' /\ At(u, s)' \notin X =>
              Holds(u, s) /\ At(u, s)' = At(u, s) /\ StartOf(u)' = StartOf(u)
         /\ Holds(u, s)' /\ At(u, s)' \in X => HeldAge(u, s)' /\ HeldOk(u, s)'
    BY <1>10, <1>13, <1>14, <2>7
  <2>11. X \in SUBSET Addresses /\ \A x \in X : LiveOk(x)'
    BY <1>15
  <2>12. \A b \in Addresses \ X : SameInstance(b)
    BY <1>12
  <2>13. \A u \in LocalThreads, s \in Slots : Holds(u, s)' /\ At(u, s) \in X /\ SameThread(u) =>
         /\ heap'[At(u, s)].kind = heap[At(u, s)].kind
         /\ heap'[At(u, s)].version = heap[At(u, s)].version
    BY <1>17
  <2> HIDE DEF X
  <2> QED
    BY <1>1, <1>16, <2>6, <2>9, <2>10, <2>11, <2>12, <2>13, InstancesChange
<1>19. CASE head[o] # seen[t]
  <2>1. /\ head' = head /\ seen'[t] \in Pointers
        /\ localPc'[t] = "push" /\ arg' = arg /\ new' = new
    BY <1>1, <1>2, <1>19 DEF Push, LocalTypeOK
  <2>2. \A p \in Objects : /\ Owned(p)' \ X = Owned(p) \ X
                           /\ \A x \in X : x \in Owned(p)' => OwnedPlace(p, x)'
                           /\ OwnerOk(p)'
                           /\ InDestructor(p) <=> InDestructor(p)'
    <3>1. ASSUME NEW p \in Objects
          PROVE /\ Owned(p)' = Owned(p) /\ n \notin Owned(p)' /\ OwnerOk(p)'
                /\ InDestructor(p) <=> InDestructor(p)'
      BY <1>3, <1>11, <2>1
    <3> QED
      BY <3>1
  <2>3. HeldOk(t, r)'
    BY <1>2, <1>3, <1>10, <1>14, <2>1 DEF HeldOk
  <2>4. ThreadOk(t)'
    <3>1. \A p \in Objects : n \notin Owned(p)'
      BY <1>3, <2>2, <1>11, <2>1
    <3>2. Started(t)' /\ Exists(o)' /\ ~InDestructor(o)' /\ At(t, r)' = n
      BY <1>3, <1>7, <1>10 DEF Exists, InDestructor, Started
    <3>3. \A u \in LocalThreads : new'[u] = n => u = t
      BY <1>3, <2>1
    <3>4. Accesses(t)'
      BY <1>2, <1>3, <1>6, <1>7, <1>14, <2>1, <3>1, <3>2, <3>3 DEF Accesses
    <3> QED
      BY <2>1, <3>4 DEF ThreadOk
  <2>5. \A u \in LocalThreads :
          /\ \A b \in Addresses \ X : new'[u] = b <=> new[u] = b
          /\ (SameThread(u) /\ new[u] \notin X) \/ ThreadOk(u)'
    BY <1>2, <1>3, <1>8, <2>1, <2>4
  <2>6. \A u \in LocalThreads, s \in Slots :
         /\ Holds(u, s) /\ At(u, s) \notin X => Holds(u, s)' /\ At(u, s)' = At(u, s)
         /\ Holds(u, s)' /\ At(u, s)' \notin X =>
              Holds(u, s) /\ At(u, s)' = At(u, s) /\ StartOf(u)' = StartOf(u)
         /\ Holds(u, s)' /\ At(u, s)' \in X => HeldAge(u, s)' /\ HeldOk(u, s)'
    BY <1>10, <1>13, <1>14, <2>3
  <2>7. X \in SUBSET Addresses /\ \A x \in X : LiveOk(x)'
    BY <1>15
  <2>8. \A b \in Addresses \ X : SameInstance(b)
    BY <1>12
  <2>9. \A u \in LocalThreads, s \in Slots : Holds(u, s)' /\ At(u, s) \in X /\ SameThread(u) =>
         /\ heap'[At(u, s)].kind = heap[At(u, s)].kind
         /\ heap'[At(u, s)].version = heap[At(u, s)].version
    BY <1>17
  <2> HIDE DEF X
  <2> QED
    BY <1>1, <1>16, <2>2, <2>4, <2>5, <2>6, <2>7, <2>8, <2>9, InstancesChange
<1> QED
  BY <1>18, <1>19

LEMMA CreateStep ==
  ASSUME IInv, NEW t \in LocalThreads, NEW o \in Objects, Create(t, o)  PROVE IInv'
<1>1. LocalTypeOK' /\ LocalTypeOK /\ ThreadOk(t)
  BY OtherTypes DEF IInv
<1>2. PICK n \in Addresses :
        /\ ~heap[n].live
        /\ heap' = [heap EXCEPT ![n] =
                      [live |-> TRUE, kind |-> object[o].kind, version |-> object[o].version,
                       expired |-> FALSE, next |-> Null, object |-> object[o].id,
                       start |-> StartOf(t)]]
        /\ new' = [new EXCEPT ![t] = n]
  BY DEF Create
<1>3. /\ localPc[t] = "idle" /\ Started(t) /\ Exists(o) /\ ~InDestructor(o)
      /\ ~HasStateInThread(t, o) /\ arg' = [arg EXCEPT ![t] = o]
      /\ localPc' = [localPc EXCEPT ![t] = "register"]
      /\ object' = object /\ freeSlots' = freeSlots /\ nextSlot' = nextSlot /\ built' = built
      /\ owner' = owner /\ cur' = cur /\ localState' = localState /\ seen' = seen /\ head' = head
  BY DEF Create, Exists, InDestructor, Proceed, objectVars, ownerVars
<1>4. /\ heap'[n].live /\ heap'[n].kind = object[o].kind /\ heap'[n].version = object[o].version
      /\ ~heap'[n].expired /\ heap'[n].object = object[o].id /\ heap'[n].start = StartOf(t)
      /\ \A b \in Addresses \ {n} : heap'[b] = heap[b]
      /\ new'[t] = n /\ arg'[t] = o /\ localPc'[t] = "register"
      /\ \A u \in LocalThreads \ {t} : SameThread(u)
  BY <1>1, <1>2, <1>3 DEF LocalTypeOK, SameThread
<1>5. PICK r \in Slots : r = object[o].slot /\ object[o].id \in 1 .. built
  BY <1>3, SlotTyped
<1>6. /\ \A u \in LocalThreads, s \in Slots : Holds(u, s) => At(u, s) # n
      /\ \A u \in LocalThreads : new[u] # n
      /\ \A p \in Objects : n \notin Owned(p)
  <2>1. ASSUME NEW u \in LocalThreads  PROVE new[u] # n
    BY <1>2, NullIsNoAddress DEF IInv, ThreadOk, Ends, Accesses
  <2> QED
    BY <1>2, <2>1 DEF IInv, HeldOk, OwnedOk
<1>7. \A u \in LocalThreads, s \in Slots :
         /\ Holds(u, s)' <=> Holds(u, s)
         /\ At(u, s)' = At(u, s) /\ StartOf(u)' = StartOf(u)
  <2>1. \A s \in Slots : /\ Holds(t, s)' <=> Holds(t, s)
                         /\ At(t, s)' = At(t, s) /\ StartOf(t)' = StartOf(t)
    BY <1>3, <1>4 DEF Holds, At, StartOf, Started
  <2>2. \A u \in LocalThreads \ {t} : \A s \in Slots :
           /\ Holds(u, s)' <=> Holds(u, s)
           /\ At(u, s)' = At(u, s) /\ StartOf(u)' = StartOf(u)
    BY <1>4, ThreadSame
  <2> QED
    BY <2>1, <2>2
<1>8. ASSUME NEW p \in Objects
      PROVE  Owned(p)' = Owned(p) /\ OwnerOk(p)' /\ (InDestructor(p) <=> InDestructor(p)')
  <2>1. OwnerOk(p) /\ Chain(p) \subseteq Addresses \ {n}
    BY <1>1, <1>6, ChainBasics DEF IInv, Owned
  <2>2. \A b \in Chain(p) : heap'[b].next = heap[b].next
    BY <1>4, <2>1
  <2> QED
    BY <1>1, <1>3, <2>1, <2>2, OwnedFrame
<1>9. ThreadOk(t)'
  <2>1. \A u \in LocalThreads : new'[u] = n => u = t
    BY <1>4, <1>6 DEF SameThread
  <2>2. \A p \in Objects : n \notin Owned(p)'
    BY <1>6, <1>8
  <2>3. \A u \in LocalThreads, s \in Slots : Holds(u, s)' => At(u, s)' # n
    BY <1>6, <1>7
  <2>4. Holds(t, r)' => At(t, r)' \in Addresses /\ heap'[At(t, r)'].version # object[o].version
    <3>1. SUFFICES ASSUME Holds(t, r)
          PROVE  At(t, r) \in Addresses /\ heap'[At(t, r)].version # object[o].version
      BY <1>7
    <3>2. At(t, r) \in Addresses \ {n} /\ At(t, r) # Null
      BY <1>1, <1>6, <3>1 DEF Holds, At, LocalTypeOK
    <3>3. heap[At(t, r)].version # object[o].version
      BY <1>3, <1>5, <3>2 DEF HasStateInThread, At
    <3> QED
      BY <1>4, <3>2, <3>3
  <2>5. Started(t)' /\ Exists(o)' /\ ~InDestructor(o)' /\ heap'[n].start = StartOf(t)'
    BY <1>3, <1>4, <1>8 DEF Exists, Started, StartOf
  <2>6. Accesses(t)'
    BY <1>3, <1>4, <1>5, <2>1, <2>2, <2>3, <2>4, <2>5 DEF Accesses
  <2> QED
    BY <1>4, <2>6 DEF ThreadOk
<1>10. LiveOk(n)'
  <2>1. object[o].kind # "none"
    BY <1>3 DEF Exists
  <2> QED
    BY <1>3, <1>4, <1>5, <2>1 DEF LiveOk
<1> DEFINE X == {n}
<1>11. X \in SUBSET Addresses /\ \A x \in X : LiveOk(x)'
  BY <1>10
<1>12. \A b \in Addresses \ X : SameInstance(b)
  BY <1>4 DEF SameInstance
<1>13. \A p \in Objects : /\ Owned(p)' \ X = Owned(p) \ X
                          /\ \A x \in X : x \in Owned(p)' => OwnedPlace(p, x)'
                          /\ OwnerOk(p)'
                          /\ InDestructor(p) <=> InDestructor(p)'
  BY <1>6, <1>8
<1>14. \A u \in LocalThreads :
         /\ \A b \in Addresses \ X : new'[u] = b <=> new[u] = b
         /\ (SameThread(u) /\ new[u] \notin X) \/ ThreadOk(u)'
  <2>1. new[t] = Null
    BY <1>1, <1>3 DEF ThreadOk, Ends
  <2> QED
    BY <1>4, <1>6, <1>9, <2>1, NullIsNoAddress DEF SameThread
<1>15. \A u \in LocalThreads, s \in Slots :
         /\ Holds(u, s) /\ At(u, s) \notin X => Holds(u, s)' /\ At(u, s)' = At(u, s)
         /\ Holds(u, s)' => At(u, s)' \notin X
         /\ Holds(u, s)' /\ At(u, s)' \notin X =>
              Holds(u, s) /\ At(u, s)' = At(u, s) /\ StartOf(u)' = StartOf(u)
  BY <1>6, <1>7
<1>16. \A u \in LocalThreads, s \in Slots : Holds(u, s)' => At(u, s) \notin X
  BY <1>6, <1>7
<1>17. UNCHANGED objectVars
  BY <1>3 DEF objectVars
<1> HIDE DEF X
<1> QED
  BY <1>1, <1>11, <1>12, <1>13, <1>14, <1>15, <1>16, <1>17, InstancesChange

-----------------------------------------------------------------------------
(***************************************************************************)
(* The steps of owners, one by one.                                        *)
(***************************************************************************)

\* An owner goes on, along a chain that stays what it is.
LEMMA OwnerGoes ==
  ASSUME IInv, LocalTypeOK', NEW o \in Objects, object[o].kind = "Object",
         UNCHANGED <<objectVars, localThreadVars, head, heap>>,
         \A p \in Objects \ {o} : owner'[p] = owner[p] /\ cur'[p] = cur[p],
         owner[o] # "destroyMark", owner'[o] # "destroyMark",
         owner'[o] \in {"idle", "erase"} => cur'[o] = Null,
         owner'[o] = "destroy" => cur'[o] = head[o] /\ NotAccessed(o),
         owner[o] # "destroy",
         owner'[o] \in {"check", "walk"} => cur'[o] \in Chain(o),
         owner'[o] = "iterate" => cur'[o] \in Chain(o) \cup {Null}
  PROVE  IInv'
<1>0. LocalTypeOK /\ OwnerOk(o)
  BY DEF IInv
<1>1. ASSUME NEW p \in Objects \ {o}
      PROVE  Owned(p)' = Owned(p) /\ OwnerOk(p)' /\ (InDestructor(p) <=> InDestructor(p)')
  <2>1. OwnerOk(p)
    BY DEF IInv
  <2> QED
    BY <1>0, <2>1, OwnedFrame DEF objectVars
<1>2. Chain(o)' = Chain(o) /\ Acyclic(head[o], NextOf)'
  BY <1>0, ChainFrame
<1>3. Owned(o)' = Owned(o)
  BY <1>2 DEF Owned
<1>4. OwnerOk(o)'
  BY <1>2 DEF OwnerOk, objectVars
<1>5. /\ ~InDestructor(o)
      /\ InDestructor(o)' => NotAccessed(o)
  BY <1>0 DEF InDestructor, LocalTypeOK
<1> QED
  BY <1>1, <1>3, <1>4, <1>5, OwnerMoves

LEMMA OwnerMovesStep ==
  ASSUME IInv, NEW o \in Objects,
         EraseOrphans(o) \/ EraseLoad(o) \/ Iterate(o) \/ IterateNext(o)
  PROVE  IInv'
<1>0. LocalTypeOK /\ OwnerOk(o) /\ LocalTypeOK'
  BY OwnerTypes DEF IInv, OwnerStep
<1>1. /\ UNCHANGED <<objectVars, localThreadVars, head, heap>>
      /\ \A p \in Objects \ {o} : owner'[p] = owner[p] /\ cur'[p] = cur[p]
  BY <1>0, Domains DEF EraseOrphans, EraseLoad, Iterate, IterateNext, OwnerGoto
<1>2. object[o].kind = "Object"
  BY <1>0 DEF EraseOrphans, EraseLoad, Iterate, IterateNext, OwnerOk
<1>3. /\ head[o] # Null => head[o] \in Chain(o)
      /\ \A a \in Chain(o) : a \in Addresses /\ heap[a].next \in Chain(o) \cup {Null}
  BY <1>0, ChainBasics
<1>4. CASE EraseOrphans(o)
  <2>1. owner[o] = "idle" /\ owner'[o] = "erase" /\ cur'[o] = Null
    BY <1>0, <1>4 DEF EraseOrphans, OwnerGoto, LocalTypeOK, OwnerOk
  <2> QED
    BY <1>0, <1>1, <1>2, <2>1, OwnerGoes
<1>5. CASE EraseLoad(o)
  <2>1. /\ owner[o] = "erase" /\ cur'[o] = head[o]
        /\ owner'[o] = IF head[o] = Null THEN "idle" ELSE "check"
    BY <1>0, <1>5 DEF EraseLoad, OwnerGoto, LocalTypeOK
  <2> QED
    BY <1>0, <1>1, <1>2, <1>3, <2>1, OwnerGoes
<1>6. CASE Iterate(o)
  <2>1. owner[o] = "idle" /\ owner'[o] = "iterate" /\ cur'[o] = head[o]
    BY <1>0, <1>6 DEF Iterate, OwnerGoto, LocalTypeOK
  <2> QED
    BY <1>0, <1>1, <1>2, <1>3, <2>1, OwnerGoes
<1>7. CASE IterateNext(o)
  <2>1. owner[o] = "iterate" /\ cur[o] \in Chain(o) \cup {Null}
    BY <1>0, <1>7 DEF IterateNext, OwnerOk
  <2>2. CASE cur[o] = Null
    <3>1. owner'[o] = "idle" /\ cur'[o] = Null
      BY <1>0, <1>7, <2>2 DEF IterateNext, OwnerGoto, LocalTypeOK
    <3> QED
      BY <1>0, <1>1, <1>2, <2>1, <3>1, OwnerGoes
  <2>3. CASE cur[o] # Null
    <3>1. owner'[o] = "iterate" /\ cur'[o] = heap[cur[o]].next
      BY <1>0, <1>7, <2>1, <2>3 DEF IterateNext, OwnerGoto, LocalTypeOK
    <3>2. cur'[o] \in Chain(o) \cup {Null}
      BY <1>3, <2>1, <2>3, <3>1
    <3> QED
      BY <1>0, <1>1, <1>2, <2>1, <3>1, <3>2, OwnerGoes
  <2> QED
    BY <2>2, <2>3
<1> QED
  BY <1>4, <1>5, <1>6, <1>7

\* The object deletes an instance that its thread has marked.
LEMMA OwnerDeletes ==
  ASSUME IInv, LocalTypeOK', NEW o \in Objects, NEW x \in Owned(o), heap[x].expired,
         UNCHANGED <<objectVars, localThreadVars>>,
         ~heap'[x].live, \A b \in Addresses \ {x} : SameInstance(b),
         \A b \in Addresses \ Owned(o) : heap'[b] = heap[b],
         \A p \in Objects \ {o} :
           owner'[p] = owner[p] /\ cur'[p] = cur[p] /\ head'[p] = head[p],
         Owned(o)' = Owned(o) \ {x}, OwnerOk(o)', InDestructor(o) <=> InDestructor(o)'
  PROVE  IInv'
<1>0. LocalTypeOK
  BY DEF IInv
<1>1. /\ x \in Addresses
      /\ \A t \in LocalThreads : new[t] # x
      /\ \A t \in LocalThreads, s \in Slots : Holds(t, s) => At(t, s) # x
  BY OrphanIsLost
<1>2. ASSUME NEW p \in Objects \ {o}
      PROVE  /\ Owned(p)' = Owned(p) \ {x} /\ OwnerOk(p)'
             /\ InDestructor(p) <=> InDestructor(p)'
  <2>1. OwnerOk(p) /\ x \notin Owned(p)
    BY OwnedApart DEF IInv
  <2>2. \A b \in Chain(p) : b \in Addresses \ Owned(o)
    BY <1>0, ChainBasics, OwnedApart DEF Owned
  <2>3. \A b \in Chain(p) : heap'[b].next = heap[b].next
    BY <2>2
  <2>4. Owned(p)' = Owned(p) /\ OwnerOk(p)' /\ (InDestructor(p) <=> InDestructor(p)')
    BY <1>0, <2>1, <2>3, OwnedFrame DEF objectVars
  <2> QED
    BY <2>1, <2>4
<1>3. \A p \in Objects : /\ Owned(p)' = Owned(p) \ {x} /\ OwnerOk(p)'
                         /\ InDestructor(p) <=> InDestructor(p)'
  BY <1>2
<1>4. \A t \in LocalThreads : SameThread(t)
  BY DEF SameThread, localThreadVars
<1>5. \A t \in LocalThreads, s \in Slots :
        /\ Holds(t, s)' <=> Holds(t, s) /\ At(t, s) # x
        /\ Holds(t, s)' => At(t, s) = At(t, s)' /\ StartOf(t) = StartOf(t)'
  BY <1>1, <1>4, ThreadSame
<1>6. \A t \in LocalThreads : new[t] # x /\ new'[t] = new[t]
  BY <1>1, <1>4 DEF SameThread
<1> QED
  BY <1>1, <1>3, <1>4, <1>5, <1>6, Deletes

LEMMA EraseCheckStep ==
  ASSUME IInv, NEW o \in Objects, EraseCheck(o)  PROVE IInv'
<1>0. LocalTypeOK /\ OwnerOk(o) /\ LocalTypeOK'
  BY OwnerTypes DEF IInv, OwnerStep
<1>1. /\ owner[o] = "check" /\ cur[o] \in Chain(o) /\ object[o].kind = "Object"
      /\ \A p \in Objects \ {o} : owner'[p] = owner[p] /\ cur'[p] = cur[p]
      /\ UNCHANGED <<objectVars, localThreadVars>>
  BY <1>0 DEF EraseCheck, OwnerOk, OwnerGoto, LocalTypeOK
<1>2. CASE owner'[o] = "walk"
  <2>1. head' = head /\ heap' = heap /\ cur' = cur
    BY <1>0, <1>2 DEF EraseCheck, OwnerGoto, LocalTypeOK
  <2> QED
    BY <1>0, <1>1, <1>2, <2>1, OwnerGoes
<1>3. CASE owner'[o] # "walk"
  <2>1. owner'[o] = "erase" /\ cur'[o] = Null /\ heap[cur[o]].expired /\ EraseHead(o)
    BY <1>0, <1>3 DEF EraseCheck, OwnerGoto, LocalTypeOK
  <2>2. CASE head[o] # cur[o]
    <3>1. head' = head /\ heap' = heap
      BY <2>1, <2>2 DEF EraseHead
    <3> QED
      BY <1>0, <1>1, <2>1, <3>1, OwnerGoes
  <2>3. CASE head[o] = cur[o]
    <3>1. PICK x \in Addresses : x = cur[o]
      BY <1>0, <1>1, ChainBasics
    <3>2. /\ head'[o] = heap[x].next
          /\ \A p \in Objects \ {o} : head'[p] = head[p]
          /\ heap'[x] = NoInstance /\ \A b \in Addresses \ {x} : heap'[b] = heap[b]
      <4>1. head' = [head EXCEPT ![o] = heap[x].next] /\ heap' = Deleted(x)
        BY <2>1, <2>3, <3>1 DEF EraseHead
      <4>2. head \in [Objects -> Pointers] /\ DOMAIN heap = Addresses
        BY <1>0 DEF LocalTypeOK
      <4> QED
        BY <4>1, <4>2 DEF Deleted
    <3>3. Chain(o)' = Chain(o) \ {x} /\ Acyclic(head[o], NextOf)'
      <4>1. /\ NextOf \in Nexts /\ NextOf' \in Nexts /\ Acyclic(x, NextOf)
        BY <1>0, <2>3, <3>1, NextsTyped DEF LocalTypeOK, NextOf, Nexts, OwnerOk
      <4>2. /\ Chain(o) = Reach(x, NextOf) /\ Chain(o)' = Reach(NextOf[x], NextOf')
            /\ Acyclic(head[o], NextOf)' <=> Acyclic(NextOf[x], NextOf')
        BY <2>3, <3>1, <3>2 DEF Chain, NextOf
      <4>3. \A b \in Reach(x, NextOf) \ {x} : NextOf'[b] = NextOf[b]
        BY <1>0, <3>2, <4>2, ChainBasics DEF NextOf
      <4> QED
        BY <4>1, <4>2, <4>3, ReachPop
    <3>4. /\ Owned(o)' = Owned(o) \ {x} /\ x \in Owned(o) /\ heap[x].expired
          /\ InDestructor(o) <=> InDestructor(o)'
      BY <1>1, <2>1, <3>1, <3>3 DEF Owned, InDestructor
    <3>5. OwnerOk(o)'
      BY <1>1, <2>1, <3>3 DEF OwnerOk, objectVars
    <3>6. /\ ~heap'[x].live /\ \A b \in Addresses \ {x} : SameInstance(b)
          /\ \A b \in Addresses \ Owned(o) : heap'[b] = heap[b]
      BY <3>2, <3>4 DEF SameInstance, NoInstance
    <3> QED
      BY <1>0, <1>1, <3>2, <3>4, <3>5, <3>6, OwnerDeletes
  <2> QED
    BY <2>2, <2>3
<1> QED
  BY <1>2, <1>3

LEMMA EraseWalkStep ==
  ASSUME IInv, NEW o \in Objects, EraseWalk(o)  PROVE IInv'
<1>0. LocalTypeOK /\ OwnerOk(o) /\ LocalTypeOK'
  BY OwnerTypes DEF IInv, OwnerStep
<1>1. /\ owner[o] = "walk" /\ cur[o] \in Chain(o) /\ object[o].kind = "Object"
      /\ \A p \in Objects \ {o} : owner'[p] = owner[p] /\ cur'[p] = cur[p]
      /\ UNCHANGED <<objectVars, localThreadVars, head>>
  <2>1. owner[o] = "walk" /\ UNCHANGED <<objectVars, localThreadVars, head>>
    BY DEF EraseWalk
  <2>2. cur[o] \in Chain(o) /\ object[o].kind = "Object"
    BY <1>0, <2>1 DEF OwnerOk
  <2>3. ASSUME NEW p \in Objects \ {o}  PROVE owner'[p] = owner[p] /\ cur'[p] = cur[p]
    BY <1>0, Domains DEF EraseWalk, OwnerGoto, ownerVars
  <2> QED
    BY <2>1, <2>2, <2>3
<1>2. PICK c \in Addresses, x \in Pointers : c = cur[o] /\ x = heap[c].next
  BY <1>0, <1>1, ChainBasics DEF LocalTypeOK
<1>3. x \in Chain(o) \cup {Null}
  BY <1>0, <1>1, <1>2, ChainBasics
<1>4. CASE x = Null /\ owner'[o] = "idle"
  <2>1. heap' = heap /\ cur'[o] = Null
    BY <1>0, <1>2, <1>4 DEF EraseWalk, OwnerGoto, LocalTypeOK
  <2> QED
    BY <1>0, <1>1, <1>4, <2>1, OwnerGoes
<1>5. CASE x # Null /\ heap' = heap /\ cur'[o] = x /\ owner' = owner
  BY <1>0, <1>1, <1>3, <1>5, OwnerGoes
<1>6. CASE /\ x # Null /\ heap[x].expired
           /\ heap' = [Deleted(x) EXCEPT ![c].next = heap[x].next]
           /\ UNCHANGED ownerVars
  <2>1. x \in Addresses /\ x \in Chain(o) /\ c \in Chain(o)
    BY <1>1, <1>2, <1>3, <1>6
  <2>2. /\ NextOf \in Nexts /\ NextOf' \in Nexts /\ Acyclic(head[o], NextOf)
        /\ Chain(o) = Reach(head[o], NextOf) /\ Chain(o)' = Reach(head[o], NextOf')
        /\ Acyclic(head[o], NextOf)' <=> Acyclic(head[o], NextOf')
        /\ head[o] \in Pointers
    BY <1>0, <1>1, NextsTyped DEF LocalTypeOK, NextOf, Nexts, OwnerOk, Chain
  <2>3. x # c
    BY <1>2, <2>1, <2>2, NoLoop DEF NextOf
  <2>4. /\ heap'[x] = NoInstance
        /\ heap'[c] = [heap[c] EXCEPT !.next = heap[x].next]
        /\ \A b \in Addresses \ {x, c} : heap'[b] = heap[b]
    BY <1>0, <1>6, <2>1, <2>3 DEF Deleted, LocalTypeOK
  <2>5. /\ heap'[c].next = heap[x].next
        /\ heap'[c].live = heap[c].live /\ heap'[c].kind = heap[c].kind
        /\ heap'[c].version = heap[c].version /\ heap'[c].expired = heap[c].expired
        /\ heap'[c].object = heap[c].object /\ heap'[c].start = heap[c].start
    BY <1>0, <2>4 DEF LocalTypeOK
  <2>6. Chain(o)' = Chain(o) \ {x} /\ Acyclic(head[o], NextOf)'
    <3>1. /\ NextOf[c] = x /\ NextOf'[c] = NextOf[NextOf[c]]
          /\ \A b \in Chain(o) \ {c, x} : NextOf'[b] = NextOf[b]
      BY <1>0, <1>2, <2>1, <2>4, <2>5, ChainBasics DEF NextOf
    <3> QED
      BY <1>6, <2>1, <2>2, <3>1, ReachUnlink
  <2>7. /\ Owned(o)' = Owned(o) \ {x} /\ x \in Owned(o) /\ c \in Owned(o)
        /\ InDestructor(o) <=> InDestructor(o)'
    BY <1>1, <1>6, <2>1, <2>6 DEF Owned, InDestructor, ownerVars
  <2>8. OwnerOk(o)'
    BY <1>1, <1>2, <1>6, <2>1, <2>3, <2>6 DEF OwnerOk, objectVars, ownerVars
  <2>9. /\ ~heap'[x].live /\ \A b \in Addresses \ {x} : SameInstance(b)
        /\ \A b \in Addresses \ Owned(o) : heap'[b] = heap[b]
    <3>1. ~heap'[x].live
      BY <2>4 DEF NoInstance
    <3>2. ASSUME NEW b \in Addresses \ {x}  PROVE SameInstance(b)
      BY <2>4, <2>5 DEF SameInstance
    <3>3. ASSUME NEW b \in Addresses \ Owned(o)  PROVE heap'[b] = heap[b]
      BY <2>4, <2>7
    <3> QED
      BY <3>1, <3>2, <3>3
  <2> QED
    BY <1>0, <1>1, <1>6, <2>7, <2>8, <2>9, OwnerDeletes
<1>7. \/ x = Null /\ owner'[o] = "idle"
      \/ x # Null /\ heap' = heap /\ cur'[o] = x /\ owner' = owner
      \/ /\ x # Null /\ heap[x].expired
         /\ heap' = [Deleted(x) EXCEPT ![c].next = heap[x].next]
         /\ UNCHANGED ownerVars
  BY <1>0, <1>2 DEF EraseWalk, OwnerGoto, LocalTypeOK
<1> QED
  BY <1>4, <1>5, <1>6, <1>7

LEMMA DestroyInstanceStep ==
  ASSUME IInv, NEW o \in Objects, DestroyInstance(o)  PROVE IInv'
<1>0. LocalTypeOK /\ OwnerOk(o) /\ LocalTypeOK'
  BY OwnerTypes DEF IInv, OwnerStep
<1>1. PICK x \in Addresses : x = cur[o]
  BY <1>0 DEF DestroyInstance, LocalTypeOK
<1>2. /\ owner[o] = "destroy" /\ x = head[o] /\ object[o].kind = "Object"
      /\ head' = [head EXCEPT ![o] = heap[x].next]
      /\ UNCHANGED <<objectVars, localThreadVars>>
  BY <1>0, <1>1, NullIsNoAddress DEF DestroyInstance, OwnerOk
<1>3. head'[o] = heap[x].next /\ \A p \in Objects \ {o} : head'[p] = head[p]
  BY <1>0, <1>2 DEF LocalTypeOK
<1>4. ASSUME \A b \in Addresses \ {x} : heap'[b] = heap[b]
      PROVE  /\ Chain(o)' = Chain(o) \ {x} /\ Acyclic(head[o], NextOf)'
             /\ x \in Chain(o)
  <2>1. /\ NextOf \in Nexts /\ NextOf' \in Nexts /\ Acyclic(x, NextOf)
    BY <1>0, <1>2, NextsTyped DEF LocalTypeOK, NextOf, Nexts, OwnerOk
  <2>2. /\ Chain(o) = Reach(x, NextOf) /\ Chain(o)' = Reach(NextOf[x], NextOf')
        /\ Acyclic(head[o], NextOf)' <=> Acyclic(NextOf[x], NextOf')
    BY <1>2, <1>3 DEF Chain, NextOf
  <2>3. \A b \in Reach(x, NextOf) \ {x} : NextOf'[b] = NextOf[b]
    BY <1>0, <1>4, <2>2, ChainBasics DEF NextOf
  <2> QED
    BY <2>1, <2>2, <2>3, ReachPop
<1>5. CASE heap[x].expired
  <2>1. heap' = Deleted(x) /\ cur' = [cur EXCEPT ![o] = head'[o]] /\ owner' = owner
    BY <1>1, <1>5 DEF DestroyInstance
  <2>2. /\ heap'[x] = NoInstance /\ \A b \in Addresses \ {x} : heap'[b] = heap[b]
        /\ cur'[o] = head'[o] /\ \A p \in Objects \ {o} : cur'[p] = cur[p]
    BY <1>0, <2>1 DEF Deleted, LocalTypeOK
  <2>3. Chain(o)' = Chain(o) \ {x} /\ Acyclic(head[o], NextOf)' /\ x \in Chain(o)
    BY <1>4, <2>2
  <2>4. /\ Owned(o)' = Owned(o) \ {x} /\ x \in Owned(o)
        /\ InDestructor(o) <=> InDestructor(o)'
    BY <1>2, <2>1, <2>3 DEF Owned, InDestructor
  <2>5. OwnerOk(o)'
    BY <1>2, <2>1, <2>2, <2>3 DEF OwnerOk, objectVars
  <2>6. /\ ~heap'[x].live /\ \A b \in Addresses \ {x} : SameInstance(b)
        /\ \A b \in Addresses \ Owned(o) : heap'[b] = heap[b]
    BY <2>2, <2>4 DEF SameInstance, NoInstance
  <2> QED
    BY <1>0, <1>2, <1>3, <1>5, <2>1, <2>2, <2>4, <2>5, <2>6, OwnerDeletes
<1>6. CASE ~heap[x].expired
  <2>1. heap' = heap /\ cur' = cur /\ owner' = [owner EXCEPT ![o] = "destroyMark"]
    BY <1>1, <1>6 DEF DestroyInstance, OwnerGoto
  <2>2. owner'[o] = "destroyMark" /\ \A p \in Objects \ {o} : owner'[p] = owner[p]
    BY <1>0, <2>1 DEF LocalTypeOK
  <2>3. Chain(o)' = Chain(o) \ {x} /\ Acyclic(head[o], NextOf)' /\ x \in Chain(o)
    BY <1>4, <2>1
  <2>4. /\ Owned(o)' = Owned(o)
        /\ InDestructor(o) /\ InDestructor(o)'
    BY <1>1, <1>2, <2>1, <2>2, <2>3 DEF Owned, InDestructor
  <2>5. OwnerOk(o)'
    BY <1>1, <1>2, <2>1, <2>2, <2>3 DEF OwnerOk, objectVars
  <2>6. ASSUME NEW p \in Objects \ {o}
        PROVE  Owned(p)' = Owned(p) /\ OwnerOk(p)' /\ (InDestructor(p) <=> InDestructor(p)')
    <3>1. OwnerOk(p)
      BY DEF IInv
    <3> QED
      BY <1>0, <1>2, <1>3, <2>1, <2>2, <3>1, OwnedFrame DEF objectVars
  <2> QED
    BY <1>0, <1>2, <2>1, <2>4, <2>5, <2>6, OwnerMoves
<1> QED
  BY <1>5, <1>6

LEMMA DestroyMarkStep ==
  ASSUME IInv, NEW o \in Objects, DestroyMark(o)  PROVE IInv'
<1>0. LocalTypeOK /\ OwnerOk(o) /\ LocalTypeOK'
  BY OwnerTypes DEF IInv, OwnerStep
<1>1. owner[o] = "destroyMark"
  BY DEF DestroyMark
<1>2. PICK x \in Addresses : x = cur[o]
  BY <1>0, <1>1 DEF OwnerOk
<1>3. /\ x \notin Chain(o) /\ object[o].kind = "Object"
      /\ head' = head /\ UNCHANGED <<objectVars, localThreadVars>>
      /\ cur'[o] = head[o] /\ owner'[o] = "destroy"
      /\ \A p \in Objects \ {o} : cur'[p] = cur[p] /\ owner'[p] = owner[p]
  BY <1>0, <1>1, <1>2 DEF DestroyMark, OwnerGoto, OwnerOk, LocalTypeOK
<1>4. /\ heap' = Deleted(x) \/ heap' = [heap EXCEPT ![x].expired = TRUE]
      /\ heap[x].expired => heap' = Deleted(x)
      /\ ~heap[x].expired => heap' = [heap EXCEPT ![x].expired = TRUE]
  BY <1>2 DEF DestroyMark
<1>5. \A b \in Addresses \ {x} : heap'[b] = heap[b]
  BY <1>0, <1>4, Domains DEF Deleted
<1>6. Chain(o)' = Chain(o) /\ Acyclic(head[o], NextOf)'
  BY <1>0, <1>3, <1>5, ChainBasics, ChainFrame
<1>7. /\ Owned(o) = Chain(o) \cup {x} /\ Owned(o)' = Owned(o) \ {x} /\ x \in Owned(o)
      /\ InDestructor(o) /\ InDestructor(o)'
  BY <1>1, <1>2, <1>3, <1>6 DEF Owned, InDestructor
<1>8. OwnerOk(o)'
  BY <1>3, <1>6 DEF OwnerOk, objectVars
<1>9. CASE heap[x].expired
  <2>1. heap'[x] = NoInstance
    BY <1>0, <1>4, <1>9 DEF Deleted, LocalTypeOK
  <2>2. /\ ~heap'[x].live /\ \A b \in Addresses \ {x} : SameInstance(b)
        /\ \A b \in Addresses \ Owned(o) : heap'[b] = heap[b]
    BY <1>5, <1>7, <2>1 DEF SameInstance, NoInstance
  <2> QED
    BY <1>0, <1>3, <1>7, <1>8, <1>9, <2>2, OwnerDeletes
<1>10. CASE ~heap[x].expired
  <2>1. heap'[x] = [heap[x] EXCEPT !.expired = TRUE]
    BY <1>0, <1>4, <1>10 DEF LocalTypeOK
  <2>2. /\ heap'[x].expired /\ heap'[x].live = heap[x].live /\ heap'[x].kind = heap[x].kind
        /\ heap'[x].version = heap[x].version /\ heap'[x].object = heap[x].object
        /\ heap'[x].next = heap[x].next /\ heap'[x].start = heap[x].start
    BY <1>0, <2>1 DEF LocalTypeOK
  <2>3. ASSUME NEW p \in Objects
        PROVE  /\ Owned(p)' = Owned(p) \ {x} /\ OwnerOk(p)'
               /\ InDestructor(p) <=> InDestructor(p)'
    <3>1. CASE p = o
      BY <1>7, <1>8, <3>1
    <3>2. CASE p # o
      <4>1. OwnerOk(p) /\ x \notin Owned(p)
        BY <1>7, <3>2, OwnedApart DEF IInv
      <4>2. \A b \in Chain(p) : heap'[b].next = heap[b].next
        BY <1>0, <1>5, <2>2, ChainBasics
      <4>3. Owned(p)' = Owned(p) /\ OwnerOk(p)' /\ (InDestructor(p) <=> InDestructor(p)')
        BY <1>0, <1>3, <3>2, <4>1, <4>2, OwnedFrame DEF objectVars
      <4> QED
        BY <4>1, <4>3
    <3> QED
      BY <3>1, <3>2
  <2>4. /\ heap[x].live /\ heap[x].kind = "Object" /\ heap[x].object = object[o].id
        /\ \E t \in LocalThreads, s \in Slots : Holds(t, s) /\ At(t, s) = x
    BY <1>7, <1>10 DEF IInv, OwnedOk
  <2>5. \A t \in LocalThreads : new[t] # x
    BY <1>7, NullIsNoAddress DEF IInv, ThreadOk, Ends, Accesses
  <2>6. \A t \in LocalThreads : SameThread(t)
    BY <1>3 DEF SameThread, localThreadVars
  <2>7. \A t \in LocalThreads, s \in Slots :
          /\ Holds(t, s)' <=> Holds(t, s)
          /\ At(t, s)' = At(t, s) /\ StartOf(t)' = StartOf(t)
    BY <2>6, ThreadSame
  <2>8. object' = object /\ freeSlots' = freeSlots /\ nextSlot' = nextSlot /\ built' = built
    BY <1>3 DEF objectVars
  <2>9. LiveOk(x)'
    <3>1. LiveOk(x)
      BY DEF IInv
    <3> QED
      BY <2>2, <2>4, <2>7, <2>8, <3>1 DEF LiveOk
  <2>10. ASSUME NEW t \in LocalThreads, NEW s \in Slots, Holds(t, s), At(t, s) = x
         PROVE  HeldAge(t, s)' /\ HeldOk(t, s)'
    <3>1. HeldAge(t, s) /\ HeldOk(t, s)
      BY <2>10 DEF IInv
    <3>2. \A p \in Objects : Exists(p) /\ heap[x].object = object[p].id => p = o
      <4>1. SlotsApart /\ Exists(o)
        BY <1>3 DEF IInv, Exists
      <4> QED
        BY <2>4, <4>1 DEF SlotsApart
    <3>3. \A p \in Objects : Exists(p) /\ heap[x].object = object[p].id => InDestructor(p)'
      BY <1>7, <3>2
    <3>4. HeldAge(t, s)'
      BY <2>2, <2>7, <2>8, <2>10, <3>1, <3>3 DEF HeldAge, Exists
    <3>5. \A u \in LocalThreads, r \in Slots : Holds(u, r)' /\ At(u, r)' = x => u = t /\ r = s
      BY <2>7, <2>10, <3>1 DEF HeldOk
    <3>6. \A p \in Objects : x \notin Owned(p)'
      BY <2>3
    <3>7. heap'[x].live /\ heap'[x].start = StartOf(t)'
      BY <2>2, <2>4, <2>7, <2>10, <3>1 DEF HeldOk
    <3>8. HeldOk(t, s)'
      BY <2>2, <2>7, <2>10, <3>5, <3>6, <3>7 DEF HeldOk
    <3> QED
      BY <3>4, <3>8
  <2> DEFINE X == {x}
  <2>11. X \in SUBSET Addresses /\ \A y \in X : LiveOk(y)'
    BY <2>9
  <2>12. \A b \in Addresses \ X : SameInstance(b)
    BY <1>5 DEF SameInstance
  <2>13. \A p \in Objects : /\ Owned(p)' \ X = Owned(p) \ X
                            /\ \A y \in X : y \in Owned(p)' => OwnedPlace(p, y)'
                            /\ OwnerOk(p)'
                            /\ InDestructor(p) <=> InDestructor(p)'
    BY <2>3
  <2>14. \A t \in LocalThreads : /\ \A b \in Addresses \ X : new'[t] = b <=> new[t] = b
                                 /\ SameThread(t) /\ new[t] \notin X
    BY <2>5, <2>6 DEF SameThread
  <2>15. \A t \in LocalThreads, s \in Slots :
           /\ Holds(t, s) /\ At(t, s) \notin X => Holds(t, s)' /\ At(t, s)' = At(t, s)
           /\ Holds(t, s)' /\ At(t, s)' \notin X =>
                Holds(t, s) /\ At(t, s)' = At(t, s) /\ StartOf(t)' = StartOf(t)
           /\ Holds(t, s)' /\ At(t, s)' \in X => HeldAge(t, s)' /\ HeldOk(t, s)'
    BY <2>7, <2>10
  <2>16. \A t \in LocalThreads, s \in Slots : Holds(t, s)' /\ At(t, s) \in X /\ SameThread(t) =>
           /\ heap'[At(t, s)].kind = heap[At(t, s)].kind
           /\ heap'[At(t, s)].version = heap[At(t, s)].version
    BY <2>2
  <2> HIDE DEF X
  <2> QED
    BY <1>0, <1>3, <2>11, <2>12, <2>13, <2>14, <2>15, <2>16, InstancesChange
<1> QED
  BY <1>9, <1>10

\* Construction, destruction and swap, as far as instances and threads go.
LEMMA ObjectsChange ==
  ASSUME IInv, LocalTypeOK', UNCHANGED <<localThreadVars, heap>>,
         SlotsApart', built' >= built,
         \A o \in Objects : Owned(o)' = Owned(o) /\ OwnerOk(o)',
         \A o \in Objects : Owned(o) # {} \/ ~NotAccessed(o) =>
           object'[o] = object[o] /\ (InDestructor(o) <=> InDestructor(o)'),
         \A t \in LocalThreads, s \in Slots : Holds(t, s) => HeldAge(t, s)'
  PROVE  IInv'
<1> USE DEF localThreadVars
<1>1. \A t \in LocalThreads : \A s :
        /\ At(t, s)' = At(t, s) /\ (Holds(t, s)' <=> Holds(t, s))
        /\ (Started(t)' <=> Started(t)) /\ StartOf(t)' = StartOf(t)
  BY DEF At, Holds, Started, StartOf
<1>2. ASSUME NEW t \in LocalThreads  PROVE ThreadOk(t)'
  <2>1. ThreadOk(t)
    BY DEF IInv
  <2>2. CASE localPc[t] \in {"register", "load", "push"}
    <3>1. Accesses(t)
      BY <2>1, <2>2 DEF ThreadOk
    <3>2. PICK o \in Objects : o = arg[t]
      BY <3>1 DEF Accesses
    <3>3. ~NotAccessed(o)
      BY <3>2 DEF NotAccessed
    <3>4. object'[o] = object[o] /\ ~InDestructor(o)' /\ Exists(o)' /\ Exists(o)
      BY <3>1, <3>2, <3>3 DEF Accesses, Exists
    <3>5. Accesses(t)'
      BY <1>1, <3>1, <3>2, <3>4 DEF Accesses
    <3> QED
      BY <2>2, <3>5 DEF ThreadOk
  <2>3. CASE localPc[t] \notin {"register", "load", "push"}
    BY <2>1, <2>3 DEF ThreadOk, Ends, Started, Ending
  <2> QED
    BY <2>2, <2>3
<1>3. ASSUME NEW t \in LocalThreads, NEW s \in Slots, Holds(t, s)'
      PROVE  HeldAge(t, s)' /\ HeldOk(t, s)'
  <2>1. Holds(t, s) /\ HeldOk(t, s)
    BY <1>1, <1>3 DEF IInv
  <2>2. HeldOk(t, s)'
    BY <1>1, <2>1 DEF HeldOk
  <2> QED
    BY <2>1, <2>2
<1>4. ASSUME NEW o \in Objects  PROVE OwnedOk(o)'
  <2>1. OwnedOk(o)
    BY DEF IInv
  <2>2. CASE Owned(o) = {}
    BY <2>2 DEF OwnedOk
  <2>3. CASE Owned(o) # {}
    BY <1>1, <2>1, <2>3 DEF OwnedOk
  <2> QED
    BY <2>2, <2>3
<1>5. ASSUME NEW a \in Addresses  PROVE LiveOk(a)'
  <2>1. LiveOk(a) /\ built \in Nat /\ built' \in Nat
    BY DEF IInv, LocalTypeOK
  <2>2. CASE heap[a].live
    <3>1. heap'[a].kind # "none" /\ heap'[a].object \in 1 .. built'
      BY <2>1, <2>2 DEF LiveOk
    <3> QED
      BY <1>1, <2>1, <2>2, <3>1 DEF LiveOk
  <2>3. CASE ~heap[a].live
    BY <2>3 DEF LiveOk
  <2> QED
    BY <2>2, <2>3
<1> QED
  BY <1>2, <1>3, <1>4, <1>5 DEF IInv

\* An object without instances has nothing on its chain.
LEMMA NothingOwned ==
  ASSUME IInv, NEW o \in Objects, owner[o] # "destroyMark", head[o] = Null
  PROVE  Owned(o) = {}
BY ChainBasics DEF IInv, Owned

LEMMA OtherKindsIdle ==
  ASSUME IInv, NEW o \in Objects, object[o].kind # "Object"
  PROVE  owner[o] = "idle" /\ head[o] = Null /\ cur[o] = Null /\ Owned(o) = {}
<1>1. owner[o] = "idle" /\ head[o] = Null /\ cur[o] = Null
  BY DEF IInv, OwnerOk
<1> QED
  BY <1>1, NothingOwned

\* The chain of an object of which the owner stands still.
LEMMA OwnerStays ==
  ASSUME IInv, LocalTypeOK', head' = head, heap' = heap, NEW o \in Objects,
         owner'[o] = owner[o], cur'[o] = cur[o],
         object'[o].kind = object[o].kind \/ (owner[o] = "idle" /\ head[o] = Null)
  PROVE  Owned(o)' = Owned(o) /\ OwnerOk(o)'
<1>1. LocalTypeOK /\ OwnerOk(o)
  BY DEF IInv
<1>2. Chain(o)' = Chain(o) /\ Acyclic(head[o], NextOf)'
  BY <1>1, ChainFrame
<1>3. Owned(o)' = Owned(o)
  BY <1>2 DEF Owned
<1>4. OwnerOk(o)'
  BY <1>1, <1>2 DEF OwnerOk
<1> QED
  BY <1>3, <1>4

\* The chain of an object that its destructor has left empty.
LEMMA OwnerEnds ==
  ASSUME IInv, LocalTypeOK', head' = head, heap' = heap, NEW o \in Objects,
         owner[o] \in {"idle", "destroy"}, owner'[o] = "idle", cur'[o] = Null, head[o] = Null
  PROVE  Owned(o)' = Owned(o) /\ OwnerOk(o)'
<1>1. LocalTypeOK /\ OwnerOk(o)
  BY DEF IInv
<1>2. Chain(o)' = Chain(o) /\ Acyclic(head[o], NextOf)'
  BY <1>1, ChainFrame
<1>3. Owned(o)' = Owned(o)
  BY <1>2 DEF Owned
<1>4. OwnerOk(o)'
  BY <1>1, <1>2 DEF OwnerOk
<1> QED
  BY <1>3, <1>4

LEMMA ElementIn ==
  ASSUME NEW S, NEW s \in Seq(S), NEW i \in DOMAIN s
  PROVE  s[i] \in S
OBVIOUS

LEMMA AppendIn ==
  ASSUME NEW S, NEW s \in Seq(S), NEW e \in S
  PROVE  /\ DOMAIN s \subseteq DOMAIN Append(s, e)
         /\ \A i \in DOMAIN Append(s, e) :
              Append(s, e)[i] = IF i \in DOMAIN s THEN s[i] ELSE e
         /\ \A i, j \in DOMAIN Append(s, e) : i \notin DOMAIN s /\ j \notin DOMAIN s => i = j
<1>1. Len(s) \in Nat /\ DOMAIN s = 1 .. Len(s)
  OBVIOUS
<1>2. DOMAIN Append(s, e) = 1 .. Len(s) + 1
  OBVIOUS
<1> QED
  BY <1>1, <1>2

\* The slot of an object is free when it is gone, with its version.
LEMMA SlotFreed ==
  ASSUME IInv, LocalTypeOK', NEW o \in Objects, Exists(o), Owned(o) = {}, NotAccessed(o),
         FreeSlot(o), UNCHANGED <<localThreadVars, cur, head, heap>>,
         head[o] = Null, cur[o] = Null, owner[o] \in {"idle", "destroy"}, owner'[o] = "idle",
         \A p \in Objects \ {o} : owner'[p] = owner[p]
  PROVE  IInv'
<1>0. LocalTypeOK
  BY DEF IInv
<1> DEFINE S == [slot : Nat, version : Nat]
           e == [slot |-> object[o].slot, version |-> object[o].version]
<1>1. /\ freeSlots \in Seq(S) /\ e \in S /\ freeSlots' = Append(freeSlots, e)
      /\ object'[o] = NoObject /\ \A p \in Objects \ {o} : object'[p] = object[p]
      /\ nextSlot' = nextSlot /\ built' = built
  BY <1>0 DEF LocalTypeOK, FreeSlot
<1>2. /\ e.slot = object[o].slot /\ e.version = object[o].version
      /\ \A i \in DOMAIN freeSlots' : freeSlots'[i] = IF i \in DOMAIN freeSlots THEN freeSlots[i] ELSE e
      /\ \A i, j \in DOMAIN freeSlots' : i \notin DOMAIN freeSlots /\ j \notin DOMAIN freeSlots => i = j
  BY <1>1, AppendIn
<1> HIDE DEF S, e
<1>3. ~Exists(o)' /\ \A p \in Objects \ {o} : Exists(p)' <=> Exists(p)
  BY <1>1 DEF Exists, NoObject
<1>4. SlotsApart
  BY DEF IInv
<1>5. SlotsApart'
  <2>1. nextSlot' <= built' /\ built' <= MaxObjects
    BY <1>1, <1>4 DEF SlotsApart
  <2>2. ASSUME NEW p \in Objects
        PROVE IF Exists(p)' THEN object'[p].slot < nextSlot' /\ object'[p].id \in 1 .. built'
              ELSE object'[p] = NoObject
    BY <1>1, <1>3, <1>4 DEF SlotsApart
  <2>3. ASSUME NEW p \in Objects, NEW q \in Objects, Exists(p)', Exists(q)', p # q
        PROVE object'[p].slot # object'[q].slot /\ object'[p].id # object'[q].id
    BY <1>1, <1>3, <1>4, <2>3 DEF SlotsApart
  <2>4. ASSUME NEW i \in DOMAIN freeSlots'
        PROVE  /\ freeSlots'[i].slot < nextSlot'
               /\ \A p \in Objects : Exists(p)' => object'[p].slot # freeSlots'[i].slot
               /\ \A j \in DOMAIN freeSlots' : freeSlots'[i].slot = freeSlots'[j].slot => i = j
    <3>1. CASE i \in DOMAIN freeSlots
      <4>1. /\ freeSlots'[i] = freeSlots[i] /\ freeSlots[i].slot < nextSlot
            /\ \A p \in Objects : Exists(p) => object[p].slot # freeSlots[i].slot
            /\ \A j \in DOMAIN freeSlots : freeSlots[i].slot = freeSlots[j].slot => i = j
        BY <1>2, <1>4, <3>1 DEF SlotsApart
      <4>2. freeSlots[i].slot # e.slot
        BY <1>2, <4>1
      <4> QED
        BY <1>1, <1>2, <1>3, <4>1, <4>2
    <3>2. CASE i \notin DOMAIN freeSlots
      <4>1. freeSlots'[i] = e /\ e.slot < nextSlot
        BY <1>2, <1>4, <3>2 DEF SlotsApart
      <4>2. \A p \in Objects : Exists(p)' => object'[p].slot # e.slot
        BY <1>1, <1>2, <1>3, <1>4 DEF SlotsApart
      <4>3. \A j \in DOMAIN freeSlots : freeSlots[j].slot # e.slot
        BY <1>2, <1>4 DEF SlotsApart
      <4> QED
        BY <1>1, <1>2, <3>2, <4>1, <4>2, <4>3
    <3> QED
      BY <3>1, <3>2
  <2> QED
    BY <2>1, <2>2, <2>3, <2>4 DEF SlotsApart
<1>6. ASSUME NEW p \in Objects  PROVE Owned(p)' = Owned(p) /\ OwnerOk(p)'
  <2>1. CASE p = o
    BY <2>1, OwnerEnds
  <2>2. CASE p # o
    <3>1. owner'[p] = owner[p] /\ cur'[p] = cur[p] /\ object'[p].kind = object[p].kind
      BY <1>1, <2>2
    <3> QED
      BY <3>1, OwnerStays
  <2> QED
    BY <2>1, <2>2
<1>7. ASSUME NEW p \in Objects, Owned(p) # {} \/ ~NotAccessed(p)
      PROVE  object'[p] = object[p] /\ (InDestructor(p) <=> InDestructor(p)')
  BY <1>1, <1>7 DEF InDestructor
<1>8. ASSUME NEW t \in LocalThreads, NEW s \in Slots, Holds(t, s)  PROVE HeldAge(t, s)'
  <2>1. HeldAge(t, s) /\ At(t, s)' = At(t, s)
    BY <1>8 DEF IInv, At, localThreadVars
  <2>2. s < nextSlot'
    BY <1>1, <2>1 DEF HeldAge
  <2>3. ASSUME NEW i \in DOMAIN freeSlots', freeSlots'[i].slot = s
        PROVE  heap[At(t, s)].version <= freeSlots'[i].version
    BY <1>2, <2>1, <2>3 DEF HeldAge
  <2>4. ASSUME NEW p \in Objects, Exists(p)'
        PROVE  Exists(p) /\ object'[p] = object[p] /\ (InDestructor(p) <=> InDestructor(p)')
    BY <1>1, <1>3, <2>4 DEF InDestructor
  <2> QED
    BY <2>1, <2>2, <2>3, <2>4 DEF HeldAge
<1>9. built' >= built
  BY <1>0, <1>1 DEF LocalTypeOK
<1> QED
  BY <1>5, <1>6, <1>7, <1>8, <1>9, ObjectsChange

LEMMA DestroyStep ==
  ASSUME IInv, NEW o \in Objects, Destroy(o)  PROVE IInv'
<1>0. LocalTypeOK /\ OwnerOk(o) /\ LocalTypeOK'
  BY OwnerTypes DEF IInv
<1>1. /\ owner[o] = "idle" /\ object[o].kind # "none" /\ NotAccessed(o)
      /\ UNCHANGED <<localThreadVars, head, heap>>
  BY DEF Destroy
<1>2. CASE object[o].kind = "Thread"
  <2>1. FreeSlot(o) /\ owner' = owner /\ cur' = cur
    BY <1>2 DEF Destroy, ownerVars
  <2>2. head[o] = Null /\ cur[o] = Null /\ Owned(o) = {}
    BY <1>2, OtherKindsIdle
  <2> QED
    BY <1>0, <1>1, <2>1, <2>2, SlotFreed DEF Exists
<1>3. CASE object[o].kind = "Object"
  <2>1. /\ owner'[o] = "destroy" /\ cur'[o] = head[o] /\ UNCHANGED objectVars
        /\ \A p \in Objects \ {o} : owner'[p] = owner[p] /\ cur'[p] = cur[p]
    BY <1>0, <1>3 DEF Destroy, OwnerGoto, LocalTypeOK
  <2> QED
    BY <1>0, <1>1, <1>3, <2>1, OwnerGoes
<1> QED
  BY <1>0, <1>1, <1>2, <1>3 DEF LocalTypeOK

LEMMA FinishDestroyStep ==
  ASSUME IInv, NEW o \in Objects, FinishDestroy(o)  PROVE IInv'
<1>0. LocalTypeOK /\ OwnerOk(o) /\ LocalTypeOK'
  BY OwnerTypes DEF IInv, OwnerStep
<1>1. /\ owner[o] = "destroy" /\ cur[o] = Null /\ FreeSlot(o)
      /\ UNCHANGED <<localThreadVars, cur, head, heap>>
      /\ owner'[o] = "idle" /\ \A p \in Objects \ {o} : owner'[p] = owner[p]
  BY <1>0 DEF FinishDestroy, OwnerGoto, LocalTypeOK
<1>2. head[o] = Null /\ object[o].kind = "Object" /\ Owned(o) = {}
  BY <1>0, <1>1, NothingOwned DEF OwnerOk
<1>3. NotAccessed(o)
  <2>1. ASSUME NEW t \in LocalThreads, arg[t] = o  PROVE FALSE
    BY <1>1, <2>1, NullAssumption DEF IInv, ThreadOk, Ends, Accesses, InDestructor
  <2> QED
    BY <2>1 DEF NotAccessed
<1> QED
  BY <1>0, <1>1, <1>2, <1>3, SlotFreed DEF Exists

LEMMA ConstructStep ==
  ASSUME IInv, NEW o \in Objects, NEW kind \in {"Thread", "Object"}, Construct(o, kind)
  PROVE  IInv'
<1>0. LocalTypeOK /\ LocalTypeOK' /\ SlotsApart
  BY OtherTypes DEF IInv
<1>1. /\ object[o].kind # "Object" /\ ~Exists(o) /\ built < MaxObjects /\ built' = built + 1
      /\ UNCHANGED <<ownerVars, localThreadVars, heap>>
  BY DEF Construct, Exists
<1>2. owner[o] = "idle" /\ head[o] = Null /\ cur[o] = Null /\ Owned(o) = {}
  BY <1>1, OtherKindsIdle
<1>3. head' = head
  BY <1>0, <1>2 DEF Construct, LocalTypeOK
<1>4. PICK r, v : r = NewSlot.slot /\ v = NewSlot.version
  OBVIOUS
<1>5. /\ object'[o] = [kind |-> kind, slot |-> r, version |-> v, id |-> built']
      /\ \A p \in Objects \ {o} : object'[p] = object[p]
  BY <1>0, <1>4 DEF Construct, LocalTypeOK
<1>6. Exists(o)' /\ \A p \in Objects \ {o} : Exists(p)' <=> Exists(p)
  BY <1>5 DEF Exists
\* The slot is new, or was free until now with an older version.
<1>7. /\ nextSlot' <= built' /\ nextSlot <= nextSlot' /\ r < nextSlot'
      /\ DOMAIN freeSlots' \subseteq DOMAIN freeSlots
      /\ \A i \in DOMAIN freeSlots' : freeSlots'[i] = freeSlots[i] /\ freeSlots[i].slot # r
      /\ \A p \in Objects \ {o} : Exists(p) => object[p].slot # r
      /\ \/ r = nextSlot
         \/ \E i \in DOMAIN freeSlots : freeSlots[i].slot = r /\ v = freeSlots[i].version + 1
  <2>1. nextSlot \in Nat /\ built \in Nat /\ nextSlot <= built
    BY <1>0 DEF LocalTypeOK, SlotsApart
  <2>2. CASE freeSlots = <<>>
    <3>1. r = nextSlot /\ nextSlot' = nextSlot + 1 /\ freeSlots' = freeSlots
      BY <1>4, <2>2 DEF Construct, NewSlot
    <3>2. \A i \in DOMAIN freeSlots : freeSlots[i].slot # r
      BY <2>2
    <3>3. \A p \in Objects : Exists(p) => object[p].slot # r
      <4>1. \A p \in Objects : Exists(p) => object[p].slot < nextSlot
        BY <1>0 DEF SlotsApart
      <4>2. \A p \in Objects : object[p].slot \in Nat
        BY <1>0 DEF LocalTypeOK
      <4> QED
        BY <2>1, <3>1, <4>1, <4>2
    <3>4. nextSlot' <= built' /\ nextSlot <= nextSlot' /\ r < nextSlot'
      BY <1>1, <2>1, <3>1
    <3> QED
      BY <3>1, <3>2, <3>3, <3>4
  <2>3. CASE freeSlots # <<>>
    <3> DEFINE n == Len(freeSlots)
    <3>1. /\ r = freeSlots[n].slot /\ v = freeSlots[n].version + 1 /\ nextSlot' = nextSlot
          /\ freeSlots' = SubSeq(freeSlots, 1, n - 1)
      BY <1>4, <2>3 DEF Construct, NewSlot
    <3>2. /\ n \in DOMAIN freeSlots /\ DOMAIN freeSlots' = DOMAIN freeSlots \ {n}
          /\ \A i \in DOMAIN freeSlots' : freeSlots'[i] = freeSlots[i]
      BY <1>0, <2>3, <3>1, LastIn, SMTT(40) DEF LocalTypeOK
    <3> HIDE DEF n
    <3>3. /\ r < nextSlot
          /\ \A i \in DOMAIN freeSlots \ {n} : freeSlots[i].slot # r
          /\ \A p \in Objects : Exists(p) => object[p].slot # r
      BY <1>0, <3>1, <3>2 DEF SlotsApart
    <3>4. nextSlot' <= built' /\ nextSlot <= nextSlot' /\ r < nextSlot'
      BY <1>1, <2>1, <3>1, <3>3
    <3>5. \E i \in DOMAIN freeSlots : freeSlots[i].slot = r /\ v = freeSlots[i].version + 1
      BY <3>1, <3>2
    <3> QED
      BY <3>2, <3>3, <3>4, <3>5
  <2> QED
    BY <2>2, <2>3
<1>8. SlotsApart'
  <2>0. built \in Nat /\ built' = built + 1 /\ built' <= MaxObjects
    BY <1>0, <1>1, MaxObjectsAssumption DEF LocalTypeOK
  <2>1. ASSUME NEW p \in Objects
        PROVE IF Exists(p)' THEN object'[p].slot < nextSlot' /\ object'[p].id \in 1 .. built'
              ELSE object'[p] = NoObject
    <3>1. CASE p = o
      BY <1>5, <1>6, <1>7, <2>0, <3>1
    <3>2. CASE p # o
      <4>1. IF Exists(p) THEN object[p].slot < nextSlot /\ object[p].id \in 1 .. built
            ELSE object[p] = NoObject
        BY <1>0 DEF SlotsApart
      <4>2. object[p].slot \in Nat /\ nextSlot \in Nat /\ nextSlot' \in Nat
        BY <1>0 DEF LocalTypeOK
      <4> QED
        BY <1>5, <1>6, <1>7, <2>0, <3>2, <4>1, <4>2
    <3> QED
      BY <3>1, <3>2
  <2>2. ASSUME NEW p \in Objects \ {o}, Exists(p)'
        PROVE object'[p].slot # r /\ object'[p].id # built'
    <3>1. Exists(p) /\ object[p].id \in 1 .. built
      BY <1>0, <1>6, <2>2 DEF SlotsApart
    <3> QED
      BY <1>5, <1>7, <2>0, <3>1
  <2>3. ASSUME NEW p \in Objects, NEW q \in Objects, Exists(p)', Exists(q)', p # q
        PROVE object'[p].slot # object'[q].slot /\ object'[p].id # object'[q].id
    <3>1. CASE p = o \/ q = o
      BY <1>5, <2>2, <2>3, <3>1
    <3>2. CASE p # o /\ q # o
      BY <1>0, <1>5, <1>6, <2>3, <3>2 DEF SlotsApart
    <3> QED
      BY <3>1, <3>2
  <2>4. ASSUME NEW i \in DOMAIN freeSlots'
        PROVE  /\ freeSlots'[i].slot < nextSlot'
               /\ \A p \in Objects : Exists(p)' => object'[p].slot # freeSlots'[i].slot
               /\ \A j \in DOMAIN freeSlots' : freeSlots'[i].slot = freeSlots'[j].slot => i = j
    <3>1. /\ i \in DOMAIN freeSlots /\ freeSlots'[i] = freeSlots[i] /\ freeSlots[i].slot # r
          /\ freeSlots[i].slot < nextSlot
          /\ \A p \in Objects : Exists(p) => object[p].slot # freeSlots[i].slot
          /\ \A j \in DOMAIN freeSlots : freeSlots[i].slot = freeSlots[j].slot => i = j
      BY <1>0, <1>7 DEF SlotsApart
    <3>2. freeSlots[i].slot < nextSlot'
      <4>1. freeSlots[i].slot \in Nat /\ nextSlot \in Nat /\ nextSlot' \in Nat
        <5>1. freeSlots \in Seq([slot : Nat, version : Nat])
          BY <1>0 DEF LocalTypeOK
        <5>2. freeSlots[i] \in [slot : Nat, version : Nat]
          BY <3>1, <5>1, ElementIn
        <5> QED
          BY <1>0, <5>2 DEF LocalTypeOK
      <4> QED
        BY <1>7, <3>1, <4>1
    <3>3. \A p \in Objects : Exists(p)' => object'[p].slot # freeSlots[i].slot
      BY <1>5, <1>6, <3>1
    <3> QED
      BY <1>7, <3>1, <3>2, <3>3
  <2> QED
    BY <1>7, <2>0, <2>1, <2>3, <2>4 DEF SlotsApart
<1>9. ASSUME NEW p \in Objects  PROVE Owned(p)' = Owned(p) /\ OwnerOk(p)'
  <2>1. owner'[p] = owner[p] /\ cur'[p] = cur[p] /\ owner[o] = "idle" /\ head[o] = Null
    BY <1>1, <1>2 DEF ownerVars
  <2>2. object'[p].kind = object[p].kind \/ (owner[p] = "idle" /\ head[p] = Null)
    BY <1>5, <2>1
  <2>3. heap' = heap
    BY <1>1
  <2> QED
    BY <1>0, <1>3, <2>1, <2>2, <2>3, OwnerStays
<1>10. ASSUME NEW p \in Objects, Owned(p) # {} \/ ~NotAccessed(p)
       PROVE  object'[p] = object[p] /\ (InDestructor(p) <=> InDestructor(p)')
  <2>1. p # o
    <3>1. ASSUME NEW t \in LocalThreads, arg[t] = o  PROVE FALSE
      BY <1>1, <3>1, NullAssumption DEF IInv, ThreadOk, Ends, Accesses
    <3> QED
      BY <1>2, <1>10, <3>1 DEF NotAccessed
  <2> QED
    BY <1>1, <1>5, <2>1 DEF InDestructor, ownerVars
<1>11. ASSUME NEW t \in LocalThreads, NEW s \in Slots, Holds(t, s)  PROVE HeldAge(t, s)'
  <2>1. HeldAge(t, s) /\ At(t, s)' = At(t, s) /\ HeldOk(t, s)
    BY <1>11, <1>1 DEF IInv, At, localThreadVars
  <2>2. PICK a \in Addresses : a = At(t, s)
    BY <1>0, <1>11 DEF Holds, At, LocalTypeOK
  <2>3. heap[a].version \in Nat /\ heap[a].object \in 1 .. built /\ s \in Nat
    BY <1>0, <2>1, <2>2 DEF IInv, HeldOk, LiveOk, LocalTypeOK, Slots
  <2>4. nextSlot \in Nat /\ nextSlot' \in Nat /\ built \in Nat /\ r \in Nat
    BY <1>0, <1>5 DEF LocalTypeOK
  <2>5. s < nextSlot'
    BY <1>7, <2>1, <2>3, <2>4 DEF HeldAge
  <2>6. s = r => heap[a].version < v
    <3>1. SUFFICES ASSUME s = r  PROVE heap[a].version < v
      OBVIOUS
    <3>2. r # nextSlot
      BY <2>1, <2>4, <3>1 DEF HeldAge
    <3>3. PICK i \in DOMAIN freeSlots : freeSlots[i].slot = r /\ v = freeSlots[i].version + 1
      BY <1>7, <3>2
    <3>4. freeSlots[i].version \in Nat
      <4>1. freeSlots \in Seq([slot : Nat, version : Nat])
        BY <1>0 DEF LocalTypeOK
      <4>2. freeSlots[i] \in [slot : Nat, version : Nat]
        BY <4>1, ElementIn
      <4> QED
        BY <4>2
    <3>5. heap[a].version <= freeSlots[i].version
      BY <2>1, <2>2, <3>1, <3>3 DEF HeldAge
    <3> QED
      BY <2>3, <3>3, <3>4, <3>5
  <2>7. v \in Nat
    BY <1>0, <1>5 DEF LocalTypeOK
  <2>8. heap[a].object # built'
    BY <1>1, <2>3, <2>4
  <2>9. ASSUME NEW i \in DOMAIN freeSlots', freeSlots'[i].slot = s
        PROVE  heap[a].version <= freeSlots'[i].version
    BY <1>7, <2>1, <2>2, <2>9 DEF HeldAge
  <2>10. ASSUME NEW p \in Objects, Exists(p)'
         PROVE  /\ object'[p].slot = s => heap[a].version <= object'[p].version
                /\ heap[a].object = object'[p].id <=>
                     object'[p].slot = s /\ heap[a].version = object'[p].version
                /\ heap[a].object = object'[p].id =>
                     heap[a].kind = object'[p].kind /\ (heap[a].expired => InDestructor(p)')
    <3>1. CASE p = o
      <4>1. /\ object'[p].slot = r /\ object'[p].version = v /\ object'[p].id = built'
        BY <1>5, <3>1
      <4> QED
        BY <2>3, <2>6, <2>7, <2>8, <4>1
    <3>2. CASE p # o
      <4>1. Exists(p) /\ object'[p] = object[p] /\ (InDestructor(p)' <=> InDestructor(p))
        BY <1>1, <1>5, <1>6, <2>10, <3>2 DEF InDestructor, ownerVars
      <4> QED
        BY <2>1, <2>2, <4>1 DEF HeldAge
    <3> QED
      BY <3>1, <3>2
  <2> QED
    BY <1>1, <2>1, <2>2, <2>5, <2>9, <2>10 DEF HeldAge
<1>12. built' >= built
  BY <1>0, <1>1 DEF LocalTypeOK
<1> QED
  BY <1>0, <1>1, <1>8, <1>9, <1>10, <1>11, <1>12, ObjectsChange

LEMMA SwapStep ==
  ASSUME IInv, NEW o \in Objects, NEW p \in Objects, Swap(o, p)  PROVE IInv'
<1>0. LocalTypeOK /\ LocalTypeOK' /\ SlotsApart
  BY OtherTypes DEF IInv
<1>1. /\ o # p /\ object[o].kind = "Thread" /\ object[p].kind = "Thread"
      /\ NotAccessed(o) /\ NotAccessed(p)
      /\ UNCHANGED <<freeSlots, nextSlot, built, ownerVars, localThreadVars, head, heap>>
  BY DEF Swap, NotAccessed
<1>2. /\ object'[o] = object[p] /\ object'[p] = object[o]
      /\ \A q \in Objects \ {o, p} : object'[q] = object[q]
  BY <1>0 DEF Swap, LocalTypeOK
<1>3. \A q \in {o, p} : owner[q] = "idle" /\ head[q] = Null /\ Owned(q) = {}
  BY <1>1, OtherKindsIdle
\* Every object is what one of the objects was, and different ones were different.
<1>4. /\ \A q \in Objects : \E m \in Objects :
           /\ object'[q] = object[m] /\ (InDestructor(q)' <=> InDestructor(m))
           /\ Exists(q)' <=> Exists(m)
      /\ \A q, s \in Objects : q # s => \E m, n \in Objects :
           /\ m # n /\ object'[q] = object[m] /\ object'[s] = object[n]
           /\ (Exists(q)' <=> Exists(m)) /\ (Exists(s)' <=> Exists(n))
  <2>1. \A q \in Objects : InDestructor(q)' <=> InDestructor(q)
    BY <1>1 DEF InDestructor, ownerVars
  <2>2. ~InDestructor(o) /\ ~InDestructor(p)
    BY <1>3 DEF InDestructor
  <2>3. /\ Exists(o)' <=> Exists(p)
        /\ Exists(p)' <=> Exists(o)
        /\ \A q \in Objects \ {o, p} : Exists(q)' <=> Exists(q)
    BY <1>2 DEF Exists
  <2> QED
    BY <1>1, <1>2, <2>1, <2>2, <2>3
<1>5. SlotsApart'
  <2>1. nextSlot' <= built' /\ built' <= MaxObjects
    BY <1>0, <1>1 DEF SlotsApart
  <2>2. ASSUME NEW q \in Objects
        PROVE IF Exists(q)' THEN object'[q].slot < nextSlot' /\ object'[q].id \in 1 .. built'
              ELSE object'[q] = NoObject
    <3>1. PICK m \in Objects : object'[q] = object[m] /\ (Exists(q)' <=> Exists(m))
      BY <1>4
    <3>2. IF Exists(m) THEN object[m].slot < nextSlot /\ object[m].id \in 1 .. built
          ELSE object[m] = NoObject
      BY <1>0 DEF SlotsApart
    <3> QED
      BY <1>1, <3>1, <3>2
  <2>3. ASSUME NEW q \in Objects, NEW s \in Objects, Exists(q)', Exists(s)', q # s
        PROVE object'[q].slot # object'[s].slot /\ object'[q].id # object'[s].id
    <3>1. PICK m \in Objects, n \in Objects :
            /\ m # n /\ object'[q] = object[m] /\ object'[s] = object[n]
            /\ (Exists(q)' <=> Exists(m)) /\ (Exists(s)' <=> Exists(n))
      BY <1>4, <2>3
    <3>2. object[m].slot # object[n].slot /\ object[m].id # object[n].id
      BY <1>0, <2>3, <3>1 DEF SlotsApart
    <3> QED
      BY <3>1, <3>2
  <2>4. ASSUME NEW i \in DOMAIN freeSlots'
        PROVE  /\ freeSlots'[i].slot < nextSlot'
               /\ \A q \in Objects : Exists(q)' => object'[q].slot # freeSlots'[i].slot
               /\ \A j \in DOMAIN freeSlots' : freeSlots'[i].slot = freeSlots'[j].slot => i = j
    <3>1. /\ freeSlots[i].slot < nextSlot
          /\ \A m \in Objects : Exists(m) => object[m].slot # freeSlots[i].slot
          /\ \A j \in DOMAIN freeSlots : freeSlots[i].slot = freeSlots[j].slot => i = j
      BY <1>0, <1>1, <2>4 DEF SlotsApart
    <3>2. ASSUME NEW q \in Objects, Exists(q)'  PROVE object'[q].slot # freeSlots[i].slot
      <4>1. PICK m \in Objects : object'[q] = object[m] /\ (Exists(q)' <=> Exists(m))
        BY <1>4
      <4> QED
        BY <3>1, <3>2, <4>1
    <3> QED
      BY <1>1, <3>1, <3>2
  <2> QED
    BY <2>1, <2>2, <2>3, <2>4 DEF SlotsApart
<1>6. ASSUME NEW q \in Objects  PROVE Owned(q)' = Owned(q) /\ OwnerOk(q)'
  <2>1. owner'[q] = owner[q] /\ cur'[q] = cur[q]
    BY <1>1 DEF ownerVars
  <2>2. object'[q].kind = object[q].kind
    BY <1>1, <1>2
  <2>3. head' = head /\ heap' = heap
    BY <1>1
  <2> QED
    BY <1>0, <2>1, <2>2, <2>3, OwnerStays
<1>7. ASSUME NEW q \in Objects, Owned(q) # {} \/ ~NotAccessed(q)
      PROVE  object'[q] = object[q] /\ (InDestructor(q) <=> InDestructor(q)')
  BY <1>1, <1>2, <1>3, <1>7 DEF InDestructor, ownerVars
<1>8. ASSUME NEW t \in LocalThreads, NEW s \in Slots, Holds(t, s)  PROVE HeldAge(t, s)'
  <2>1. HeldAge(t, s) /\ At(t, s)' = At(t, s)
    BY <1>1, <1>8 DEF IInv, At, localThreadVars
  <2>2. ASSUME NEW q \in Objects, Exists(q)'
        PROVE LET a == At(t, s) IN
              /\ object'[q].slot = s => heap[a].version <= object'[q].version
              /\ heap[a].object = object'[q].id <=>
                   object'[q].slot = s /\ heap[a].version = object'[q].version
              /\ heap[a].object = object'[q].id =>
                   heap[a].kind = object'[q].kind /\ (heap[a].expired => InDestructor(q)')
    <3>1. PICK m \in Objects : /\ object'[q] = object[m] /\ (InDestructor(q)' <=> InDestructor(m))
                               /\ Exists(m)
      BY <1>4, <2>2
    <3> QED
      BY <2>1, <3>1 DEF HeldAge
  <2> QED
    BY <1>1, <2>1, <2>2 DEF HeldAge
<1>9. built' >= built
  BY <1>0, <1>1 DEF LocalTypeOK
<1> QED
  BY <1>0, <1>1, <1>5, <1>6, <1>7, <1>8, <1>9, ObjectsChange

LEMMA Stutter == IInv /\ UNCHANGED localVars => IInv'
<1>1. SUFFICES ASSUME IInv, UNCHANGED localVars  PROVE IInv'
  OBVIOUS
<1>2. /\ UNCHANGED objectVars /\ UNCHANGED ownerVars /\ UNCHANGED localThreadVars
      /\ head' = head /\ heap' = heap
  BY <1>1 DEF localVars
<1>3. LocalTypeOK /\ \A o \in Objects : OwnerOk(o)
  BY <1>1 DEF IInv
<1>4. LocalTypeOK'
  BY <1>2, <1>3 DEF LocalTypeOK, objectVars, ownerVars, localThreadVars, Started
<1>5. ASSUME NEW o \in Objects  PROVE Owned(o)' = Owned(o) /\ OwnerOk(o)'
  <2>1. owner'[o] = owner[o] /\ cur'[o] = cur[o] /\ object'[o].kind = object[o].kind
    BY <1>2 DEF objectVars, ownerVars
  <2> QED
    BY <1>1, <1>2, <1>4, <2>1, OwnerStays
<1>6. \A o \in Objects : InDestructor(o) <=> InDestructor(o)'
  BY <1>2 DEF InDestructor, ownerVars
<1> QED
  BY <1>1, <1>2, <1>4, <1>5, <1>6, OwnerMoves

LEMMA InitHolds == LocalInit => IInv
<1>1. SUFFICES ASSUME LocalInit  PROVE IInv
  OBVIOUS
<1> USE DEF LocalInit
<1>2. LocalTypeOK
  <2>1. NoInstance \in [live : BOOLEAN, kind : {"none", "Thread", "Object"},
                        version : Nat, expired : BOOLEAN, next : Pointers,
                        object : Nat, start : Nat]
    BY DEF NoInstance, Pointers
  <2>2. NoObject \in [kind : {"none", "Thread", "Object"}, slot : Nat, version : Nat, id : Nat]
    BY DEF NoObject
  <2>3. freeSlots \in Seq([slot : Nat, version : Nat])
    BY <1>1
  <2> QED
    BY <1>1, <2>1, <2>2, <2>3 DEF LocalTypeOK, Pointers, Started
<1>3. \A t \in LocalThreads, s \in Slots : ~Holds(t, s)
  BY <1>1 DEF Holds, Started
<1>4. ASSUME NEW o \in Objects
      PROVE  ~Exists(o) /\ object[o] = NoObject /\ Owned(o) = {} /\ OwnerOk(o)
  <2>1. head[o] = Null /\ cur[o] = Null /\ owner[o] = "idle" /\ object[o] = NoObject
    BY <1>1
  <2>2. Chain(o) = {}
    BY <1>2, <2>1, ChainBasics
  <2>3. Reach(head[o], NextOf) = {}
    BY <2>2 DEF Chain, NextOf
  <2>4. Acyclic(head[o], NextOf)
    BY <2>3 DEF Acyclic
  <2> QED
    BY <2>1, <2>2, <2>4 DEF Owned, OwnerOk, Exists, NoObject
<1>5. SlotsApart
  <2>1. nextSlot = 0 /\ built = 0 /\ MaxObjects \in Nat /\ DOMAIN freeSlots = {}
    BY <1>1, MaxObjectsAssumption
  <2> QED
    BY <1>4, <2>1 DEF SlotsApart
<1>6. \A t \in LocalThreads : ThreadOk(t)
  BY <1>1 DEF ThreadOk, Ends
<1>7. \A o \in Objects : OwnedOk(o)
  BY <1>4 DEF OwnedOk
<1>8. \A a \in Addresses : LiveOk(a)
  BY <1>1 DEF LiveOk, NoInstance
<1> QED
  BY <1>2, <1>3, <1>4, <1>5, <1>6, <1>7, <1>8 DEF IInv

LEMMA LocalStep == IInv /\ [LocalNext]_localVars => IInv'
<1> SUFFICES ASSUME IInv, [LocalNext]_localVars  PROVE IInv'
  OBVIOUS
<1>1. ASSUME NEW t \in LocalThreads, StartThread(t) \/ EndThread(t) \/ ThreadStep(t)
      PROVE  IInv'
  <2>1. CASE StartThread(t)
    BY <2>1, StartThreadStep
  <2>2. CASE EndThread(t)
    BY <2>2, EndThreadStep
  <2>3. CASE EndInstance(t)
    BY <2>3, EndInstanceStep
  <2>4. CASE MarkInstance(t)
    BY <2>4, MarkInstanceStep
  <2>5. CASE FinishThread(t)
    BY <2>5, FinishThreadStep
  <2>6. CASE Register(t)
    BY <2>6, RegisterStep
  <2>7. CASE LoadHead(t)
    BY <2>7, LoadHeadStep
  <2>8. CASE Push(t)
    BY <2>8, PushStep
  <2> QED
    BY <1>1, <2>1, <2>2, <2>3, <2>4, <2>5, <2>6, <2>7, <2>8 DEF ThreadStep
<1>2. ASSUME NEW t \in LocalThreads, NEW o \in Objects, Create(t, o)  PROVE IInv'
  BY <1>2, CreateStep
<1>3. ASSUME NEW o \in Objects, Destroy(o) \/ EraseOrphans(o) \/ Iterate(o) \/ OwnerStep(o)
      PROVE  IInv'
  <2>1. CASE Destroy(o)
    BY <2>1, DestroyStep
  <2>2. CASE EraseOrphans(o) \/ EraseLoad(o) \/ Iterate(o) \/ IterateNext(o)
    BY <2>2, OwnerMovesStep
  <2>3. CASE DestroyInstance(o)
    BY <2>3, DestroyInstanceStep
  <2>4. CASE DestroyMark(o)
    BY <2>4, DestroyMarkStep
  <2>5. CASE FinishDestroy(o)
    BY <2>5, FinishDestroyStep
  <2>6. CASE EraseCheck(o)
    BY <2>6, EraseCheckStep
  <2>7. CASE EraseWalk(o)
    BY <2>7, EraseWalkStep
  <2> QED
    BY <1>3, <2>1, <2>2, <2>3, <2>4, <2>5, <2>6, <2>7 DEF OwnerStep
<1>4. ASSUME NEW o \in Objects, NEW kind \in {"Thread", "Object"}, Construct(o, kind)
      PROVE  IInv'
  BY <1>4, ConstructStep
<1>5. ASSUME NEW o \in Objects, NEW p \in Objects, Swap(o, p)  PROVE IInv'
  BY <1>5, SwapStep
<1>6. CASE UNCHANGED localVars
  BY <1>6, Stutter
<1> QED
  BY <1>1, <1>2, <1>3, <1>4, <1>5, <1>6 DEF LocalNext

\* However threads start, end, access and register, and however owners construct,
\* destroy, erase, iterate and swap, every instance keeps its place.
THEOREM InstancesHavePlaces == LocalSpec => []IInv
<1>1. LocalInit => IInv
  BY InitHolds
<1>2. IInv /\ [LocalNext]_localVars => IInv'
  BY LocalStep
<1> QED
  BY <1>1, <1>2, PTL DEF LocalSpec

-----------------------------------------------------------------------------
\* A thread that finds an instance finds its own, of this life and of this very
\* object, however often the slot was given to other objects.
THEOREM AccessIsPrivate == LocalSpec => []Private
<1>1. ASSUME IInv  PROVE Private
  <2> SUFFICES ASSUME NEW t \in LocalThreads, NEW o \in Objects,
                      Started(t), localPc[t] = "idle", object[o].kind # "none",
                      HasStateInThread(t, o)
               PROVE  LET a == localState[t].at[object[o].slot]
                      IN  heap[a].live /\ heap[a].start = StartOf(t)
                          /\ heap[a].object = object[o].id
    BY DEF Private
  <2>1. Exists(o) /\ object[o].slot \in Slots
    BY <1>1, SlotTyped DEF Exists
  <2>2. PICK s \in Slots : s = object[o].slot
    BY <2>1
  <2>3. At(t, s) # Null /\ heap[At(t, s)].version = object[o].version /\ Holds(t, s)
    BY <2>2 DEF HasStateInThread, Holds, At
  <2>4. HeldAge(t, s) /\ HeldOk(t, s)
    BY <1>1, <2>3 DEF IInv
  <2>5. heap[At(t, s)].object = object[o].id
    BY <2>1, <2>2, <2>3, <2>4 DEF HeldAge
  <2> QED
    BY <2>2, <2>4, <2>5 DEF HeldOk, At
<1> QED
  BY <1>1, InstancesHavePlaces, PTL

\* What an object still has to delete is registered by nobody, and its own.
LEMMA OwnedIsOwn ==
  ASSUME IInv, NEW o \in Objects, NEW a \in Owned(o)
  PROVE  /\ a \in InstancesOf(o) /\ object[o].kind = "Object"
         /\ \A t \in LocalThreads : new[t] # a
         /\ \A p \in Objects : Exists(p) /\ object[p].id = heap[a].object => p = o
<1>1. LocalTypeOK /\ OwnerOk(o) /\ SlotsApart /\ OwnedOk(o)
  BY DEF IInv
<1>2. object[o].kind = "Object"
  BY OtherKindsIdle
<1>3. a \in Addresses
  BY <1>1, ChainBasics DEF Owned, OwnerOk
<1>4. heap[a].live /\ heap[a].object = object[o].id
  BY <1>1 DEF OwnedOk
<1>5. ASSUME NEW t \in LocalThreads, new[t] = a  PROVE FALSE
  BY <1>3, <1>5, NullIsNoAddress DEF IInv, ThreadOk, Ends, Accesses
<1>6. ASSUME NEW p \in Objects, Exists(p), object[p].id = heap[a].object  PROVE p = o
  BY <1>1, <1>2, <1>4, <1>6 DEF SlotsApart, Exists
<1> QED
  BY <1>2, <1>3, <1>4, <1>5, <1>6 DEF InstancesOf

\* Outside of its destructor, the chain of an OwningThreadLocal has exactly the
\* instances that were registered with it and not deleted yet: no push and no
\* eraseOrphans loses the instance of another thread.
THEOREM ChainKeepsInstances == LocalSpec => []ChainExact
<1>1. ASSUME IInv  PROVE ChainExact
  <2> SUFFICES ASSUME NEW o \in Objects, object[o].kind = "Object", ~InDestructor(o)
               PROVE  Chain(o) = InstancesOf(o) \ UNION {Registering(t) : t \in LocalThreads}
    BY DEF ChainExact
  <2>1. Chain(o) = Owned(o) /\ Exists(o)
    BY DEF Owned, InDestructor, Exists
  <2>2. ASSUME NEW a \in Owned(o)
        PROVE  a \in InstancesOf(o) \ UNION {Registering(t) : t \in LocalThreads}
    BY <1>1, <2>2, OwnedIsOwn DEF Registering
  <2>3. ASSUME NEW a \in InstancesOf(o), \A t \in LocalThreads : a \notin Registering(t)
        PROVE  a \in Owned(o)
    <3>1. a \in Addresses /\ heap[a].live /\ heap[a].object = object[o].id
      BY <2>3 DEF InstancesOf
    <3>2. \A t \in LocalThreads : new[t] # a
      BY <2>3, <3>1, NullIsNoAddress DEF Registering
    <3>3. ASSUME NEW p \in Objects, a \in Owned(p)  PROVE a \in Owned(o)
      BY <1>1, <2>1, <3>1, <3>3, OwnedIsOwn
    <3>4. ASSUME NEW t \in LocalThreads, NEW s \in Slots, Holds(t, s), At(t, s) = a
          PROVE  a \in Owned(o)
      <4>1. HeldAge(t, s) /\ HeldOk(t, s)
        BY <1>1, <3>4 DEF IInv
      <4>2. heap[a].kind = "Object" /\ ~heap[a].expired
        BY <2>1, <3>1, <3>4, <4>1 DEF HeldAge
      <4>3. \E p \in Objects : a \in Owned(p)
        BY <3>2, <3>4, <4>1, <4>2 DEF HeldOk
      <4> QED
        BY <3>3, <4>3
    <3>5. LiveOk(a)
      BY <1>1, <3>1 DEF IInv
    <3> QED
      BY <3>1, <3>2, <3>3, <3>4, <3>5 DEF LiveOk
  <2> QED
    BY <2>1, <2>2, <2>3
<1> QED
  BY <1>1, InstancesHavePlaces, PTL

\* Thread and object never both delete an instance, and never neither: what they
\* still reach is there, and what is there one of them still reaches.
THEOREM DeletedOnce == LocalSpec => []InstancesOwned
<1>1. ASSUME IInv  PROVE NoDangling
  <2>1. ASSUME NEW t \in LocalThreads, NEW a \in Held(t)
        PROVE  heap[a].live /\ heap[a].start = StartOf(t)
    <3>1. PICK s \in Slots : Holds(t, s) /\ At(t, s) = a
      BY <2>1 DEF Held, Holds, At
    <3> QED
      BY <1>1, <3>1 DEF IInv, HeldOk
  <2>2. ASSUME NEW t \in LocalThreads, NEW a \in Registering(t)
        PROVE  heap[a].live /\ heap[a].start = StartOf(t)
    BY <1>1, <2>2 DEF Registering, IInv, ThreadOk, Ends, Accesses
  <2>3. ASSUME NEW o \in Objects  PROVE Chain(o) \cup LookedAt(o) \subseteq InstancesOf(o)
    <3>1. LocalTypeOK /\ OwnerOk(o)
      BY <1>1 DEF IInv
    <3>2. Chain(o) \cup LookedAt(o) \subseteq Owned(o)
      <4>1. owner[o] \in {"idle", "destroy", "destroyMark", "erase", "check", "walk", "iterate"}
        BY <3>1 DEF LocalTypeOK
      <4>2. head[o] # Null => head[o] \in Chain(o)
        BY <3>1, ChainBasics
      <4> QED
        BY <3>1, <4>1, <4>2 DEF Owned, LookedAt, OwnerOk
    <3> QED
      BY <1>1, <3>2, OwnedIsOwn
  <2> QED
    BY <2>1, <2>2, <2>3 DEF NoDangling
<1>2. ASSUME IInv  PROVE NoLeak
  <2> SUFFICES ASSUME NEW a \in Addresses, heap[a].live
               PROVE  \/ \E t \in LocalThreads : a \in Held(t) \cup Registering(t)
                      \/ \E o \in Objects : object[o].kind = "Object"
                                            /\ a \in Chain(o) \cup LookedAt(o)
    BY DEF NoLeak
  <2>1. a # Null /\ LiveOk(a)
    BY <1>2, NullIsNoAddress DEF IInv
  <2>2. ASSUME NEW t \in LocalThreads, NEW s \in Slots, Holds(t, s), At(t, s) = a
        PROVE  a \in Held(t)
    BY <2>1, <2>2 DEF Held, Holds, At
  <2>3. ASSUME NEW t \in LocalThreads, new[t] = a  PROVE a \in Registering(t)
    BY <2>1, <2>3 DEF Registering
  <2>4. ASSUME NEW o \in Objects, a \in Owned(o)
        PROVE  object[o].kind = "Object" /\ a \in Chain(o) \cup LookedAt(o)
    BY <1>2, <2>1, <2>4, OwnedIsOwn DEF Owned, LookedAt
  <2> QED
    BY <2>1, <2>2, <2>3, <2>4 DEF LiveOk
<1>3. IInv => InstancesOwned
  BY <1>1, <1>2 DEF InstancesOwned
<1> QED
  BY <1>3, InstancesHavePlaces, PTL
=============================================================================
