------------------------------ MODULE HashJoin ------------------------------
(***************************************************************************)
(* The hash join of the two interpreting engines, inner and right semi:    *)
(* visitProduce(InnerJoin) of algebra/visitors/MaterializedExecution.cpp   *)
(* and visitConsume(InnerJoin) of PushModelExecution.cpp.  Both insert the *)
(* left tuples into a ChainingHashTable in parallel, finalize it, and look *)
(* every right tuple up.  A key is the list of the values of the join      *)
(* columns, and its hash is the bitwise or of theirs.                      *)
(***************************************************************************)
EXTENDS ChainingHashTable, FiniteSetsExt

CONSTANTS
  RightKeys,   \* the keys of the right child
  ColumnHash,  \* the hash of each column value, as the set of its bits
  NumRight     \* bound: tuples of the right child

Right == 1 .. NumRight

\* hashKey: keyHash |= k.hash() over the columns.
HashKey(key) ==
  SumSet({2 ^ bit : bit \in UNION {ColumnHash[key[i]] : i \in DOMAIN key}})

ASSUME RightAssumption == NumRight \in Nat
ASSUME HashKeyAssumption == \A key \in Keys \cup RightKeys : Hash[key] = HashKey(key)

VARIABLES
  right,    \* the key of each right tuple (probeKeys)
  semi,     \* is the join a right semi join?
  state,    \* where the probe of each right tuple is: "todo", "probe" or "done"
  iter,     \* the entry it looks at
  joined    \* the entries it was joined with, in this order

probeVars == <<right, semi, state, iter, joined>>

JoinInit ==
  /\ Init
  /\ right \in [Right -> RightKeys]
  /\ semi \in BOOLEAN
  /\ state = [r \in Right |-> "todo"]
  /\ iter = [r \in Right |-> NullPtr]
  /\ joined = [r \in Right |-> <<>>]

BuildSide == Next /\ UNCHANGED probeVars

\* hashMap.lookup(hashKey(probeKeys)): the first entry with the hash.
StartProbe(r) ==
  /\ phase = "probe"
  /\ state[r] = "todo"
  /\ state' = [state EXCEPT ![r] = "probe"]
  /\ iter' = [iter EXCEPT ![r] = Lookup(Hash[right[r]])]
  /\ UNCHANGED <<vars, right, semi, joined>>

\* Mutant: the semi join goes on after its first match.
MatchSemiGoesOn(r) ==
  /\ state[r] = "probe"
  /\ iter[r] # NullPtr
  /\ KeyOf(iter[r]) = right[r]
  /\ joined' = [joined EXCEPT ![r] = Append(@, iter[r])]
  /\ state' = state
  /\ iter' = [iter EXCEPT ![r] = LookupNext(iter[r])]
  /\ UNCHANGED <<vars, right, semi>>

\* The keys are equal: the pair is emitted, and a semi join stops.
Match(r) ==
  /\ state[r] = "probe"
  /\ iter[r] # NullPtr
  /\ KeyOf(iter[r]) = right[r]
  /\ joined' = [joined EXCEPT ![r] = Append(@, iter[r])]
  /\ state' = IF semi THEN [state EXCEPT ![r] = "done"] ELSE state
  /\ iter' = IF semi THEN iter ELSE [iter EXCEPT ![r] = LookupNext(iter[r])]
  /\ UNCHANGED <<vars, right, semi>>

\* Mutant: the loop goes on without leaving the entry.
MismatchStays(r) ==
  /\ state[r] = "probe"
  /\ iter[r] # NullPtr
  /\ KeyOf(iter[r]) # right[r]
  /\ UNCHANGED <<vars, right, semi, state, iter, joined>>

\* Another key with the same hash.
Mismatch(r) ==
  /\ state[r] = "probe"
  /\ iter[r] # NullPtr
  /\ KeyOf(iter[r]) # right[r]
  /\ iter' = [iter EXCEPT ![r] = LookupNext(iter[r])]
  /\ UNCHANGED <<vars, right, semi, state, joined>>

EndProbe(r) ==
  /\ state[r] = "probe"
  /\ iter[r] = NullPtr
  /\ state' = [state EXCEPT ![r] = "done"]
  /\ UNCHANGED <<vars, right, semi, iter, joined>>

Probe(r) == StartProbe(r) \/ Match(r) \/ Mismatch(r) \/ EndProbe(r)

JoinNext ==
  \/ BuildSide
  \/ \E r \in Right : Probe(r)

joinVars == <<vars, probeVars>>

\* The join runs to its end once the left side is in the table.
JoinSpec ==
  /\ JoinInit
  /\ [][JoinNext]_joinVars
  /\ WF_joinVars(Build /\ UNCHANGED probeVars)
  /\ WF_joinVars(FinishBuild /\ UNCHANGED probeVars)
  /\ \A r \in Right : WF_joinVars(Probe(r))

-----------------------------------------------------------------------------
Partners(r) == {p \in Entries : KeyOf(p) = right[r]}
Emitted(r) == {joined[r][i] : i \in DOMAIN joined[r]}

\* A right tuple is joined with every left tuple that has its key, once, and with no
\* other; a semi join emits it once if there is one.
JoinExact ==
  \A r \in Right : state[r] = "done" =>
    /\ semi => Len(joined[r]) = IF Partners(r) = {} THEN 0 ELSE 1
    /\ ~semi => Len(joined[r]) = Cardinality(Partners(r)) /\ Emitted(r) = Partners(r)

\* The probe of every right tuple ends once the build does.
JoinEnds == \A r \in Right : phase = "build" ~> state[r] = "done"

=============================================================================
