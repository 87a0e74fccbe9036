-------------------------------- MODULE Lists --------------------------------
(***************************************************************************)
(* The lists that hold the nodes of a factorized tree, one at a time: the  *)
(* concurrent vector, the inline list on top of it, or one deque per       *)
(* thread.  Threads append; afterwards one thread reads and destroys.      *)
(***************************************************************************)
EXTENDS InlineList, FastDeque

CONSTANTS
  MaxLength,  \* bound: the elements of all deques
  MaxVector   \* bound: a vector that is not inlined grows by one only below it

ASSUME LengthAssumption == MaxLength \in Nat /\ MaxVector \in Nat

VARIABLES
  kind,    \* the class of the list: "vector", "inline" or "deque"
  deque,   \* per thread: its deque
  chain,   \* the threads with a deque, the last to come first
  handles  \* per thread: what it appended, <<value, address>>

dequeVars == <<deque, chain, handles>>
vars == <<vectorVars, inlineVars, kind, dequeVars>>

Init ==
  /\ VectorInit
  /\ InlineInit
  /\ kind \in {"vector", "inline", "deque"}
  /\ \E inlined \in IF kind = "deque" THEN {0, 1} ELSE {0} :
       deque = [t \in Threads |-> EmptyDeque(inlined)]
  /\ chain = <<>>
  /\ handles = [t \in Threads |-> {}]

-----------------------------------------------------------------------------
(* The deques; what a thread does to its own nobody else sees.             *)

\* All elements in the order of the chain, <<thread, value>>.
Elements ==
  LET from[p \in 1 .. Len(chain) + 1] ==
        IF p > Len(chain) THEN <<>>
        ELSE [i \in 1 .. deque[chain[p]].size |-> <<chain[p], i>>] \o from[p + 1]
  IN  from[1]

Registered(t) == \E i \in DOMAIN chain : chain[i] = t

\* local(), also by a thread that then appends nothing.
Local(t) ==
  /\ ~gone /\ ~Registered(t)
  /\ chain' = <<t>> \o chain
  /\ UNCHANGED <<vectorVars, inlineVars, kind, deque, handles>>

DequeEmplaceBack(t) ==
  LET value == deque[t].size + 1
      d == Emplace(deque[t], value)
  IN  /\ ~gone /\ Registered(t) /\ Len(Elements) < MaxLength
      /\ deque' = [deque EXCEPT ![t] = d]
      /\ handles' = [handles EXCEPT ![t] = @ \cup {<<value, h>> : h \in Handles(d)}]
      /\ UNCHANGED <<vectorVars, inlineVars, kind, chain>>

\* resize, whose new elements are written through operator[].
DequeResize(t, n) ==
  LET old == deque[t]
      d == Resized(old, n)
      place(i) == Jump(d, Begin(d), i).element
      new == {place(i) : i \in old.size .. d.size - 1}
  IN  /\ ~gone /\ Registered(t)
      /\ old.inlined = 0 /\ n > old.size
      /\ Len(Elements) + n - old.size <= MaxLength
      /\ deque' = [deque EXCEPT ![t] = [d EXCEPT !.at =
                     [a \in DOMAIN @ \cup new |-> IF a \in new THEN a[2] + 1 ELSE @[a]]]]
      /\ UNCHANGED <<vectorVars, inlineVars, kind, chain, handles>>

DestroyDeques ==
  /\ ~gone
  /\ gone' = TRUE
  /\ deque' = [t \in Threads |->
       [deque[t] EXCEPT !.fault = @ \/ ~(DequeFreed(deque[t]) \subseteq deque[t].allocated),
                        !.allocated = @ \ DequeFreed(deque[t])]]
  /\ UNCHANGED <<size, memoryVars, destroyed, pc, localVars, inlineVars, kind, chain, handles>>

-----------------------------------------------------------------------------
DequeNext ==
  \/ \E t \in Threads :
       \/ Local(t) \/ DequeEmplaceBack(t)
       \/ \E n \in 1 .. MaxLength : DequeResize(t, n)
  \/ DestroyDeques

InlineNext ==
  \/ \E t \in Threads :
       \/ ~gone /\ TakeIndex(t)
       \/ InlineStep(t)
       \/ GrowStep(t) /\ UNCHANGED inlineVars
       \/ \E n \in Deltas : ResizeInline(t, n)
  \/ DestroyInline

Next ==
  \/ /\ kind = "vector" /\ VectorNext
     /\ size' = size + 1 => size < MaxVector
     /\ UNCHANGED <<inlineVars, kind, dequeVars>>
  \/ kind = "inline" /\ InlineNext /\ UNCHANGED <<kind, dequeVars>>
  \/ kind = "deque" /\ DequeNext

\* A thread in a call goes on.
Step(t) ==
  /\ kind # "deque"
  /\ \/ InlineStep(t)
     \/ (GrowStep(t) \/ AwaitGrowth(t)) /\ UNCHANGED inlineVars
  /\ UNCHANGED <<kind, dequeVars>>

Spec == Init /\ [][Next]_vars
FairSpec == Spec /\ \A t \in Threads : WF_vars(Step(t))

-----------------------------------------------------------------------------
\* Where the element at an index is: in the array or in the vector.
InArray == kind = "inline" /\ layout = "inline"
Lookup(i) ==
  IF InArray THEN (IF i < InlineElements THEN inline[i] ELSE Nobody)
  ELSE IF segment[SegmentIndexOf(i)] = 0 THEN Nobody ELSE ElementAt(i)

Appending(t, i) == method[t] \in {"emplace", "grow"} /\ i \in index[t] .. stop[t] - 1

\* What a call appends counts from the moment it took its indexes; what
\* finished calls appended is what a reader finds.
AL == INSTANCE AppendList WITH
  list <- IF gone THEN <<>>
          ELSE [i \in 1 .. size |->
                  IF \E t \in Threads : Appending(t, i - 1)
                  THEN CHOOSE t \in Threads : Appending(t, i - 1) ELSE Lookup(i - 1)],
  calling <- {t \in Threads : pc[t] # "idle"}

\* Appending is atomic although it takes many steps of many calls: the list
\* and the vector implement AppendList, so that no element is lost, written
\* over or left behind when the layout or the table changes.
Refines == AL!Spec

-----------------------------------------------------------------------------
\* The iterator after n increments.
After(d, it, n) ==
  LET at[k \in 0 .. n] == IF k = 0 THEN it ELSE Advance(d, at[k - 1])
  IN  at[n]
Before(d, it, n) ==
  LET at[k \in 0 .. n] == IF k = 0 THEN it ELSE Back(d, at[k - 1])
  IN  at[n]

\* Over one deque: forwards from any index, backwards from the end.
DequeExact(d) ==
  /\ \A i \in 0 .. d.size, n \in 0 .. d.size :
       i + n <= d.size =>
         LET it == After(d, IF i = 0 THEN Begin(d) ELSE Jump(d, Begin(d), i), n)
         IN  /\ IsLast(it) <=> i + n = d.size
             /\ ~IsLast(it) => Read(d, it) = i + n + 1
             /\ IsLast(it) => SamePosition(it, End(d))
  /\ \A n \in 1 .. d.size : Read(d, Before(d, End(d), n)) = d.size - n + 1

\* Position n of the list of all deques, by increments and by one jump.
ListAfter(n) ==
  LET at[k \in 0 .. n] == IF k = 0 THEN ListBegin(deque, chain)
                          ELSE ListAdvance(deque, chain, at[k - 1])
  IN  at[n]
\* A walk from the beginning or from any element visits every element behind
\* it once, over the bounds of chunks and empty deques, and stops at the end;
\* what an append returned still points to the element.
DequesExact ==
  /\ \A t \in Threads :
       /\ DequeExact(deque[t])
       /\ \A h \in handles[t] : h[2] \in DOMAIN deque[t].at /\ deque[t].at[h[2]] = h[1]
  /\ AtEnd(chain, ListAfter(Len(Elements)))
  /\ \A n \in 1 .. Len(Elements) :
       LET it == ListAfter(n - 1)
           jumped == ListJump(deque, chain, ListBegin(deque, chain), n - 1)
       IN  /\ ~AtEnd(chain, it) /\ chain[it.deque] = Elements[n][1]
           /\ ListRead(deque, chain, it) = Elements[n][2]
           /\ jumped.deque = it.deque /\ SamePosition(jumped.list, it.list)

VectorExact ==
  \A i \in 0 .. size - 1, item \in {TRUE, FALSE} :
    LET it[n \in 0 .. size - 1 - i] ==
          IF n = 0 THEN (IF item THEN ReturnedFor(i) ELSE [index |-> i, item |-> <<>>])
          ELSE Advanced(it[n - 1])
    IN  \A n \in 0 .. size - 1 - i : Dereferenced(it[n]) = ElementAt(i + n)

WalksExact ==
  ~gone => /\ kind = "deque" => DequesExact
           /\ kind # "deque" /\ ~InArray /\ AllIdle => VectorExact

\* What was allocated is freed once, with the size it was allocated with,
\* and every element of a vector is destroyed once.
MemoryExact ==
  /\ \A t \in Threads : ~deque[t].fault
  /\ gone => /\ \A t \in Threads : deque[t].allocated = {}
             /\ \A b \in DOMAIN heap : ~heap[b].live
             /\ kind # "deque" /\ ~InArray =>
                  /\ Len(destroyed) = size
                  /\ {destroyed[i][2] : i \in DOMAIN destroyed} = 0 .. size - 1
                  /\ \A i \in DOMAIN destroyed :
                       heap[destroyed[i][1]].at[destroyed[i][2]] \in Threads

\* Nobody waits for ever for a table, a segment or the change of the layout.
AppendsReturn == \A t \in Threads : pc[t] # "idle" ~> pc[t] = "idle"

=============================================================================
