-------------------------- MODULE ChainingHashTable --------------------------
(***************************************************************************)
(* factDB/infra/ChainingHashTable.hpp, the hash table of the joins, and    *)
(* factDB/infra/MultiVectorView.hpp, the view finalize iterates over.      *)
(*                                                                         *)
(* Threads collect entries in vectors of their own.  finalize allocates    *)
(* the slots and splits the entries into ranges that run in parallel: each *)
(* range links runs of entries with the same hash to one another, swings   *)
(* the slot to the first entry of the run by an atomic exchange and links  *)
(* the last one to the chain it replaced.  Between the two the rest of the *)
(* chain hangs in the air, and other ranges push onto the same slot.       *)
(*                                                                         *)
(* An entry is named by its place <<vector, index>>, its address; nothing  *)
(* is inserted after finalize, so no entry moves.  Values are left out:    *)
(* they go where their entry goes.                                         *)
(***************************************************************************)
EXTENDS Integers, Sequences

CONSTANTS
  NumThreads,      \* vectors of the thread-local container
  Keys,            \* the keys that can be inserted
  Hash,            \* the hash of each key, those that are only looked up included
  HashBits,        \* width of a hash: 64
  AbsoluteMinSize, \* the smallest size the slots are dimensioned for: 16
  MaxEntries       \* bound: number of entries

JoinThreads == 1 .. NumThreads

ASSUME ThreadsAssumption == NumThreads \in Nat \ {0}
\* 1ull << n.
PowerOfTwo[n \in Nat] == IF n = 0 THEN 1 ELSE 2 * PowerOfTwo[n - 1]

ASSUME HashAssumption ==
  HashBits \in Nat /\ \A key \in Keys : Hash[key] \in 0 .. PowerOfTwo[HashBits] - 1
ASSUME SizeAssumption == MaxEntries \in Nat /\ AbsoluteMinSize \in Nat \ {0}

\* There are never more entries than hashes: 64 bits address more than the memory.
ASSUME WidthAssumption ==
  /\ AbsoluteMinSize < PowerOfTwo[HashBits]
  /\ MaxEntries + MaxEntries \div 8 < PowerOfTwo[HashBits]

NullPtr == <<0, 0>>

VARIABLES
  entries,   \* the vectors, in the order the thread-local container iterates them
  phase,     \* "insert", "build" or "probe"
  sizeVal,   \* what size() returns
  next,      \* Entry::next of every entry
  hashtable, \* the head of the chain of every slot
  tasks      \* the ranges in work, each at its entry

vars == <<entries, phase, sizeVal, next, hashtable, tasks>>

Entries == UNION {{t} \X (1 .. Len(entries[t])) : t \in JoinThreads}

KeyOf(p) == entries[p[1]][p[2]]
HashOf(p) == Hash[KeyOf(p)]

Init ==
  /\ entries = [t \in JoinThreads |-> <<>>]
  /\ phase = "insert"
  /\ sizeVal = 0
  /\ next = <<>>
  /\ hashtable = <<>>
  /\ tasks = {}

-----------------------------------------------------------------------------
(* MultiVectorView: spans of different sizes, empty ones included.         *)

\* Entries before the vector t.
Before[t \in 1 .. NumThreads + 1] ==
  IF t = 1 THEN 0 ELSE Before[t - 1] + Len(entries[t - 1])

Total == Before[NumThreads + 1]

\* skip_empty: the first vector from t on that has an element.
SkipEmpty(t) ==
  CHOOSE u \in t .. NumThreads + 1 :
    /\ u <= NumThreads => Len(entries[u]) > 0
    /\ \A v \in t .. u - 1 : Len(entries[v]) = 0

\* iterator_at(pos), positions counted from 0.
IteratorAt(pos) ==
  LET t == CHOOSE u \in JoinThreads : Before[u] <= pos /\ pos < Before[u + 1]
  IN  <<t, pos - Before[t] + 1>>

\* iterator::operator++.
Increment(p) ==
  IF p[2] >= Len(entries[p[1]]) THEN <<SkipEmpty(p[1] + 1), 1>> ELSE <<p[1], p[2] + 1>>

-----------------------------------------------------------------------------
(* The dimension of the table.                                             *)

\* getHashTableShift(elementCount): the bits of the size, with one slot in eight to
\* spare.  (Rounding up once more never applies: the power exceeds the size.)
GetHashTableShift(elementCount) ==
  LET wanted == elementCount + elementCount \div 8
      minSize == IF wanted < AbsoluteMinSize THEN AbsoluteMinSize ELSE wanted
  IN  CHOOSE bits \in 1 .. minSize : PowerOfTwo[bits - 1] <= minSize /\ minSize < PowerOfTwo[bits]

HashTableShift == HashBits - GetHashTableShift(sizeVal)
ChunkSize == PowerOfTwo[HashBits - HashTableShift]
ComputeSlot(hash) == hash \div PowerOfTwo[HashTableShift]

-----------------------------------------------------------------------------
\* insert(hash, key, val) counts the entry, the overload with a local vector does not.
Insert(t, key, counted) ==
  /\ phase = "insert"
  /\ Total < MaxEntries
  /\ entries' = [entries EXCEPT ![t] = Append(@, key)]
  /\ sizeVal' = IF counted THEN sizeVal + 1 ELSE sizeVal
  /\ UNCHANGED <<phase, next, hashtable, tasks>>

\* The range [first, limit) starts at an entry of its own, with nothing linked.
Task(first, limit) ==
  [idx |-> first, limit |-> limit, first |-> IteratorAt(first), last |-> IteratorAt(first),
   linking |-> FALSE, replaced |-> NullPtr]

\* finalize<true>: parallel_for may split the entries anywhere.  finalize<false> takes
\* one vector after the other, one of the schedules of the ranges cut between vectors.
Ranges(cuts) ==
  {r \in (cuts \cup {0}) \X (cuts \cup {Total}) :
     r[1] < r[2] /\ \A c \in cuts : ~(r[1] < c /\ c < r[2])}

Finalize(cuts) ==
  /\ phase = "insert"
  /\ phase' = "build"
  /\ sizeVal' = Total
  /\ next' = [p \in Entries |-> NullPtr]
  /\ hashtable' = [s \in 0 .. PowerOfTwo[GetHashTableShift(Total)] - 1 |-> NullPtr]
  /\ tasks' = {Task(r[1], r[2]) : r \in Ranges(cuts)}
  /\ UNCHANGED entries

-----------------------------------------------------------------------------
(* processEntry.                                                           *)

\* Mutant: the run goes on past the end of the range.
RunContinuesPastLimit(k) ==
  /\ k.idx + 1 # sizeVal
  /\ HashOf(Increment(k.last)) = HashOf(k.last)

\* The entry after this one belongs to the range and has the same hash.
RunContinues(k) ==
  /\ k.idx + 1 # k.limit
  /\ HashOf(Increment(k.last)) = HashOf(k.last)

Collapse(k) ==
  /\ ~k.linking
  /\ RunContinues(k)
  /\ next' = [next EXCEPT ![k.last] = Increment(k.last)]
  /\ tasks' = (tasks \ {k}) \cup {[k EXCEPT !.last = Increment(k.last), !.idx = k.idx + 1]}
  /\ UNCHANGED <<entries, phase, sizeVal, hashtable>>

\* Mutant: a store that does not fetch the chain it replaces.
ExchangeForgets(k) ==
  LET slot == ComputeSlot(HashOf(k.first))
  IN  /\ ~k.linking
      /\ ~RunContinues(k)
      /\ hashtable' = [hashtable EXCEPT ![slot] = k.first]
      /\ tasks' = (tasks \ {k}) \cup {[k EXCEPT !.linking = TRUE]}
      /\ UNCHANGED <<entries, phase, sizeVal, next>>

Exchange(k) ==
  LET slot == ComputeSlot(HashOf(k.first))
  IN  /\ ~k.linking
      /\ ~RunContinues(k)
      /\ hashtable' = [hashtable EXCEPT ![slot] = k.first]
      /\ tasks' = (tasks \ {k}) \cup
                    {[k EXCEPT !.linking = TRUE, !.replaced = hashtable[slot]]}
      /\ UNCHANGED <<entries, phase, sizeVal, next>>

\* The last entry gets the replaced chain, and the range goes on behind the run.
Link(k) ==
  /\ k.linking
  /\ next' = [next EXCEPT ![k.last] = k.replaced]
  /\ tasks' = (tasks \ {k}) \cup
       IF k.idx + 1 = k.limit THEN {}
       ELSE {[k EXCEPT !.idx = k.idx + 1, !.first = Increment(k.last),
                       !.last = Increment(k.last), !.linking = FALSE,
                       !.replaced = NullPtr]}
  /\ UNCHANGED <<entries, phase, sizeVal, hashtable>>

\* parallel_for returns when all ranges are done.
FinishBuild ==
  /\ phase = "build"
  /\ tasks = {}
  /\ phase' = "probe"
  /\ UNCHANGED <<entries, sizeVal, next, hashtable, tasks>>

-----------------------------------------------------------------------------
Build == \E k \in tasks : Collapse(k) \/ Exchange(k) \/ Link(k)

Next ==
  \/ \E t \in JoinThreads, key \in Keys, counted \in BOOLEAN : Insert(t, key, counted)
  \/ \E cuts \in SUBSET (1 .. Total - 1) : Finalize(cuts)
  \/ Build
  \/ FinishBuild

Spec == Init /\ [][Next]_vars

-----------------------------------------------------------------------------
(* Lookups, which read the finished table.                                 *)

\* The entries from p on, one after the other; a chain is no longer than the entries.
ChainFrom(p, successor) ==
  LET at[i \in Nat] ==
        IF i = 0 THEN p
        ELSE IF at[i - 1] = NullPtr THEN NullPtr ELSE successor[at[i - 1]]
  IN  [i \in 0 .. Total |-> at[i]]

\* The first entry on the chain that is searched for, or nullptr.
FirstOn(chain, wanted) ==
  LET hits == {i \in DOMAIN chain : chain[i] \in wanted}
  IN  IF hits = {} THEN NullPtr
      ELSE chain[CHOOSE i \in hits : \A j \in hits : i <= j]

Lookup(hash) ==
  FirstOn(ChainFrom(hashtable[ComputeSlot(hash)], next), {p \in Entries : HashOf(p) = hash})

LookupNext(p) ==
  FirstOn(ChainFrom(next[p], next),
          {q \in Entries : HashOf(q) = HashOf(p) /\ KeyOf(q) = KeyOf(p)})

-----------------------------------------------------------------------------
OnChain(slot, successor) ==
  LET chain == ChainFrom(hashtable[slot], successor)
  IN  {i \in DOMAIN chain : chain[i] # NullPtr}

\* The entries on the chain of a slot.
Linked(slot, successor) ==
  LET chain == ChainFrom(hashtable[slot], successor)
  IN  {chain[i] : i \in OnChain(slot, successor)}

\* The finished table: the chain of a slot ends, holds the entries of the slot and
\* nothing else, each once, and size() is the number of entries on the chains.
ChainsExact ==
  phase = "probe" =>
    /\ sizeVal = Total
    /\ \A slot \in DOMAIN hashtable :
         LET chain == ChainFrom(hashtable[slot], next)
             here == {p \in Entries : ComputeSlot(HashOf(p)) = slot}
         IN  /\ Linked(slot, next) = here
             /\ \A i, j \in OnChain(slot, next) : chain[i] = chain[j] => i = j

\* While the table is built, an entry that is still to be linked stands for its link.
PendingNext ==
  [p \in Entries |->
     IF \E k \in tasks : k.linking /\ k.last = p
     THEN (CHOOSE k \in tasks : k.linking /\ k.last = p).replaced
     ELSE next[p]]

Reachable ==
  IF phase = "insert" THEN {}
  ELSE UNION {Linked(slot, PendingNext) : slot \in DOMAIN hashtable}

\* The build implements the abstract index: entries only ever join it, by runs, no
\* interleaving of the ranges loses one, and at the end all are in it.
HI == INSTANCE HashIndex WITH stored <- Entries, indexed <- Reachable

RefinesHashIndex == HI!Spec

=============================================================================
