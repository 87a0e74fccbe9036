------------------------------- MODULE BitSet -------------------------------
(***************************************************************************)
(* factDB/infra/BitSet: sets of small numbers.  A BitSet64 is one word, a  *)
(* number below 2^WordBits; a BitSetVar is a sequence of words.  Relations *)
(* of a plan are a BitSet64, the classes of equal columns a BitSetVar.     *)
(***************************************************************************)
EXTENDS Integers, Sequences, FiniteSets, Bitwise, SequencesExt, FiniteSetsExt

CONSTANTS
  WordBits, \* BitSet64::capacity, 64 in the code
  Size,     \* what a BitSetVar is constructed for
  Elements  \* the numbers that are inserted

VARIABLES
  left, right,      \* two BitSetVar of the same size
  leftSet, rightSet \* history: what was done with sets of numbers

vars == <<left, right, leftSet, rightSet>>

(***************************************************************************)
(* BitSet64                                                                *)
(***************************************************************************)
ByteBits == 8
Words == 2 ^ WordBits
Bits == 0 .. WordBits - 1
HasBit(w, v) == (w \div 2 ^ v) % 2 = 1
Complement(w) == Words - 1 - w

InsertInto(w, v) == w | 2 ^ v
CountIn(w, v) == v < WordBits /\ HasBit(w, v)
SizeOf(w) == Cardinality({v \in Bits : HasBit(w, v)})
IsSubsetOf(w, x) == w & x = w
DoesIntersectWith(w, x) == w & x # 0
Minus(w, x) == w & Complement(x)

\* Three exclusive ors.
SwapXor(w, x) ==
  LET a == w ^^ x
      b == x ^^ a
  IN  <<a ^^ b, b>>

\* std::countr_zero and std::countl_zero.
CountrZero(w) == IF w = 0 THEN WordBits ELSE Min({v \in Bits : HasBit(w, v)})
CountlZero(w) == IF w = 0 THEN WordBits ELSE WordBits - 1 - Max({v \in Bits : HasBit(w, v)})
Back(w) == WordBits - 1 - CountlZero(w)

\* The iterator is the rest of the word.
DropLowest(w) == w & (w - 1)
RECURSIVE WalkWord(_)
WalkWord(w) == IF w = 0 THEN <<>> ELSE <<CountrZero(w)>> \o WalkWord(DropLowest(w))

\* Defined for an end below the capacity: 1ull << 64 is not.
RangeSet(begin, end) == (2 ^ end - 2 ^ begin) % Words

NextPermutation(w, relations) == IF w < RangeSet(0, relations) THEN w + 1 ELSE 0

Lookup == <<0, 8, 4, 12, 2, 10, 6, 14, 1, 9, 5, 13, 3, 11, 7, 15>>
LookupOfNibble(n) == Lookup[n + 1]
\* Mutant: the nibbles are reversed but not swapped.
ReverseNibbles(n) == (LookupOfNibble((n % 2 ^ ByteBits) \div 16) * 16) | LookupOfNibble(n % 16)
ReverseByte(n) == (LookupOfNibble(n % 16) * 16) | LookupOfNibble((n % 2 ^ ByteBits) \div 16)
Reverse64(w) ==
  FoldLeft(LAMBDA reversed, i : (reversed * 2 ^ ByteBits + ReverseByte(w \div 2 ^ (ByteBits * i))) % Words,
           0, [i \in 1 .. WordBits \div ByteBits |-> i - 1])
CompareNumeric(w, x) == Reverse64(w) > Reverse64(x)

(***************************************************************************)
(* BitSetVar                                                               *)
(***************************************************************************)
NumSets == Size \div WordBits + 1
EmptyVar == [slot \in 1 .. NumSets |-> 0]

CalcSlot(val) == LET slot == val \div WordBits IN <<slot, val - slot * WordBits>>

InsertVar(sets, val) == [sets EXCEPT ![CalcSlot(val)[1] + 1] = InsertInto(@, CalcSlot(val)[2])]
CountVar(sets, val) == CountIn(sets[CalcSlot(val)[1] + 1], CalcSlot(val)[2])
IsEmptyVar(sets) == \A i \in DOMAIN sets : sets[i] = 0
SizeVar(sets) == FoldLeft(LAMBDA res, w : res + SizeOf(w), 0, sets)
IsSubsetVar(sets, super) == \A i \in DOMAIN sets : IsSubsetOf(sets[i], super[i])
\* False at the first word without a common bit.
DoesIntersectVar(sets, other) == \A i \in DOMAIN sets : DoesIntersectWith(sets[i], other[i])

UnionVar(sets, other) == [i \in DOMAIN sets |-> sets[i] | other[i]]
IntersectionVar(sets, other) == [i \in DOMAIN sets |-> sets[i] & other[i]]
\* Mutant: the difference takes in what is only in the other set.
SymmetricVar(sets, other) == [i \in DOMAIN sets |-> sets[i] ^^ other[i]]
DifferenceVar(sets, other) == [i \in DOMAIN sets |-> Minus(sets[i], other[i])]

RECURSIVE CompareFrom(_, _, _)
CompareFrom(sets, other, i) ==
  CASE i > Len(sets) -> FALSE
    [] CompareNumeric(sets[i], other[i]) -> TRUE
    [] CompareNumeric(other[i], sets[i]) -> FALSE
    [] OTHER -> CompareFrom(sets, other, i + 1)
CompareVar(sets, other) == CompareFrom(sets, other, 1)

\* The iterator: the position, ~0u at the end.
AtEnd == -1
RECURSIVE Remaining(_, _)
Remaining(sets, pos) ==
  LET word == pos \div WordBits
      ofs == pos % WordBits
  IN  IF word >= Len(sets) THEN AtEnd
      ELSE LET remaining == sets[word + 1] \div 2 ^ ofs
           IN  IF remaining = 0 THEN Remaining(sets, pos + WordBits - ofs)
               ELSE pos + CountrZero(remaining)
Advance(sets, pos) == IF pos = AtEnd THEN AtEnd ELSE Remaining(sets, pos + 1)
Begin(sets) ==
  CASE IsEmptyVar(sets) -> AtEnd
    [] HasBit(sets[1], 0) -> 0
    [] OTHER -> Advance(sets, 0)
RECURSIVE WalkFrom(_, _)
WalkFrom(sets, pos) == IF pos = AtEnd THEN <<>> ELSE <<pos>> \o WalkFrom(sets, Advance(sets, pos))

(***************************************************************************)
(* Two sets that the optimizer fills and combines.                         *)
(***************************************************************************)
Init ==
  /\ left = EmptyVar /\ right = EmptyVar
  /\ leftSet = {} /\ rightSet = {}

InsertLeft(v) ==
  /\ left' = InsertVar(left, v)
  /\ leftSet' = leftSet \cup {v}
  /\ UNCHANGED <<right, rightSet>>

InsertRight(v) ==
  /\ right' = InsertVar(right, v)
  /\ rightSet' = rightSet \cup {v}
  /\ UNCHANGED <<left, leftSet>>

\* clear, and the operators with and without an assignment.
Clear ==
  /\ left' = EmptyVar
  /\ leftSet' = {}
  /\ UNCHANGED <<right, rightSet>>

Unite ==
  /\ left' = UnionVar(left, right)
  /\ leftSet' = leftSet \cup rightSet
  /\ UNCHANGED <<right, rightSet>>

Intersect ==
  /\ left' = IntersectionVar(left, right)
  /\ leftSet' = leftSet \cap rightSet
  /\ UNCHANGED <<right, rightSet>>

Subtract ==
  /\ left' = DifferenceVar(left, right)
  /\ leftSet' = leftSet \ rightSet
  /\ UNCHANGED <<right, rightSet>>

Next ==
  \/ \E v \in Elements : InsertLeft(v) \/ InsertRight(v)
  \/ Clear \/ Unite \/ Intersect \/ Subtract

Spec == Init /\ [][Next]_vars

(***************************************************************************)
(* Properties                                                              *)
(***************************************************************************)
\* The words hold what the operations on sets give, neither a bit of another number
\* nor one beyond a word; both iterators come by each element once, in order, and the
\* last one is back().
SetsExact ==
  \A s \in {<<left, leftSet>>, <<right, rightSet>>} :
    LET sets == s[1]
        walk == WalkFrom(sets, Begin(sets))
        inSlot(i) == {v - (i - 1) * WordBits : v \in {e \in s[2] : CalcSlot(e)[1] = i - 1}}
    IN  /\ SizeVar(sets) = Cardinality(s[2])
        /\ \A v \in Elements : CountVar(sets, v) <=> v \in s[2]
        /\ IsInjective(walk) /\ ToSet(walk) = s[2]
        /\ \A i \in 1 .. Len(walk) - 1 : walk[i] < walk[i + 1]
        /\ \A i \in DOMAIN sets :
             /\ ToSet(WalkWord(sets[i])) = inSlot(i)
             /\ sets[i] # 0 => /\ Last(WalkWord(sets[i])) = Back(sets[i])
                               /\ Back(sets[i]) = Max(inSlot(i))

\* All the subsets of some relations, from the empty one back to it.
RECURSIVE PermutationsFrom(_, _)
PermutationsFrom(w, relations) ==
  LET n == NextPermutation(w, relations)
  IN  IF n = 0 THEN <<w>> ELSE <<w>> \o PermutationsFrom(n, relations)
PermutationsExact ==
  \A relations \in 1 .. 4 :
    LET all == PermutationsFrom(0, relations)
    IN  IsInjective(all) /\ {ToSet(WalkWord(all[i])) : i \in DOMAIN all} = SUBSET (0 .. relations - 1)

\* Comparisons of two sets are those of sets; in the order by which relations are sorted
\* the set with the least number that is in one only comes first, whichever byte or word
\* that is in.  Of sets of one word it is told whether they intersect.
QueriesExact ==
  LET differ == (leftSet \ rightSet) \cup (rightSet \ leftSet)
  IN  /\ IsSubsetVar(left, right) <=> leftSet \subseteq rightSet
      /\ left = right <=> leftSet = rightSet
      /\ NumSets = 1 => (DoesIntersectVar(left, right) <=> leftSet \cap rightSet # {})
      /\ CompareVar(left, right) <=> differ # {} /\ Min(differ) \in leftSet
      /\ \A i \in DOMAIN left : SwapXor(left[i], right[i]) = <<right[i], left[i]>>
      /\ PermutationsExact

\* Sets of any number of words are found to intersect if they have a number in common, as
\* QueryGraph::hasJoinEdge takes it: "there are inner joins" if the classes intersect.
IntersectExact == DoesIntersectVar(left, right) <=> leftSet \cap rightSet # {}
=============================================================================
