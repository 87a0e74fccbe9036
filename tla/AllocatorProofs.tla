--------------------------- MODULE AllocatorProofs ---------------------------
(***************************************************************************)
(* Proofs about the allocators: PooledAllocator for any number of threads, *)
(* calls and any capacity of the first chunk, and BumpAllocator for any    *)
(* number of threads, objects and calls, any requests, footer size and     *)
(* addresses.                                                              *)
(***************************************************************************)
EXTENDS PooledAllocator, BumpAllocator, TLAPS

-----------------------------------------------------------------------------
(* PooledAllocator.                                                        *)

Holding == {"publishCurrent", "publishFirst", "publishGrown"}

\* Who holds the lock, and how far the chunk that is being added is published.
LockInv ==
  /\ \A t \in Threads : pc[t] \in Holding <=> lock = t
  /\ firstChunk \in {0, 1}
  /\ firstChunk = 1 => currentChunk >= 1
  /\ lock = NoThread => /\ Len(begin) = currentChunk
                        /\ firstChunk = 0 => currentChunk = 0
  /\ \A t \in Threads :
       /\ pc[t] = "publishCurrent" =>
            Len(begin) = 1 /\ currentChunk = 0 /\ firstChunk = 0
       /\ pc[t] = "publishFirst" =>
            Len(begin) = 1 /\ currentChunk = 1 /\ firstChunk = 0
       /\ pc[t] = "publishGrown" =>
            /\ Len(begin) = currentChunk + 1
            /\ chunk[t] = Len(begin)
            /\ ptr[t] = 0
       /\ pc[t] \in {"loadCurrent", "fetchAdd", "putBack", "grow", "publishGrown"} =>
            firstChunk = 1
       /\ pc[t] \in {"fetchAdd", "putBack"} => chunk[t] \in 1 .. currentChunk

\* The chunk a thread is about to publish after growing the pool.
Unpublished(c) == \E t \in Threads : pc[t] = "publishGrown" /\ chunk[t] = c

\* The slots handed out are those below begin and end, the first slot of a chunk that
\* is not published yet excepted; all chunks but the last one are used up.
SlotInv ==
  /\ \A c \in Chunks : c < Len(begin) => begin[c] >= end[c]
  /\ \A c \in Chunks : Unpublished(c) => begin[c] = 1
  /\ \A t \in Threads : pc[t] = "putBack" => ptr[t] >= end[chunk[t]]
  /\ \A h \in handed : h[1] \in Chunks /\ h[2] < begin[h[1]] /\ h[2] < end[h[1]]
                       /\ ~Unpublished(h[1])
  /\ \A c \in Chunks : \A s \in 0 .. end[c] - 1 :
       s < begin[c] /\ ~Unpublished(c) => <<c, s>> \in handed

\* The last thread to overshoot the end of a chunk is going to put begin back.
OvershootInv ==
  \A c \in Chunks : begin[c] > end[c] =>
    \E t \in Threads : pc[t] = "putBack" /\ chunk[t] = c /\ ptr[t] + 1 = begin[c]

\* The chunks are linked in the order of their numbers.
LinkInv == \A c \in Chunks : nextChunk[c] = IF c = Len(begin) THEN 0 ELSE c + 1

\* The owner walks only when no thread allocates.
CursorInv ==
  /\ mode # "use" => Quiescent
  /\ cursor.chunk \in 0 .. Len(begin)
  /\ mode = "iterate" /\ cursor.chunk = 0 => AtEnd

\* A chunk that is still empty is not left behind: some thread is going to take a
\* slot from it.
NonEmptyInv ==
  \A c \in Chunks : begin[c] = 0 => \E t \in Threads :
    \/ pc[t] \in {"publishCurrent", "publishFirst"}
    \/ pc[t] = "loadCurrent" /\ currentChunk = c
    \/ pc[t] = "fetchAdd" /\ chunk[t] = c

\* The slots the owner came by are those in front of its cursor.
WalkInv ==
  /\ mode = "use" => walked \subseteq handed
  /\ mode \in {"free", "gone"} /\ cursor.chunk = 0 => walked = handed
  /\ mode = "gone" => cursor.chunk = 0
  /\ mode = "iterate" /\ cursor.chunk = 0 => Len(begin) = 0 /\ walked = {}
  /\ mode \in {"iterate", "free"} /\ cursor.chunk # 0 =>
       /\ cursor.chunk \in Chunks
       /\ cursor.slot <= begin[cursor.chunk]
       /\ mode = "iterate" /\ cursor.slot = begin[cursor.chunk] =>
            cursor.chunk = currentChunk
       /\ \A h \in handed :
            h \in walked <=> \/ h[1] < cursor.chunk
                             \/ h[1] = cursor.chunk /\ h[2] < cursor.slot
       /\ walked \subseteq handed

ControlInv == TypeOK /\ LockInv /\ LinkInv /\ CursorInv

-----------------------------------------------------------------------------
\* Appending an element to a sequence.
LEMMA AppendFacts ==
  ASSUME NEW S, NEW seq \in Seq(S), NEW e \in S, NEW res, res = Append(seq, e)
  PROVE  /\ res \in Seq(S)
         /\ Len(res) = Len(seq) + 1
         /\ \A i \in 1 .. Len(seq) : res[i] = seq[i]
         /\ res[Len(seq) + 1] = e
OBVIOUS

\* The headers of a chunk.
LEMMA HeaderTypes ==
  ASSUME TypeOK, NEW c \in Chunks
  PROVE  /\ c \in Nat /\ c <= Len(begin) /\ Len(begin) \in Nat
         /\ begin[c] \in Nat /\ end[c] \in Nat \ {0} /\ nextChunk[c] \in Nat
<1>1. begin \in Seq(Nat) /\ end \in Seq(Nat \ {0}) /\ nextChunk \in Seq(Nat)
      /\ Len(end) = Len(begin) /\ Len(nextChunk) = Len(begin)
      /\ c \in 1 .. Len(begin)
  BY DEF TypeOK, Chunks
<1> QED BY <1>1

\* A new chunk leaves the headers of the others alone.
LEMMA AllocateChunkFacts ==
  ASSUME TypeOK, NEW n \in Nat \ {0}, NEW used \in Nat, AllocateChunk(n, used)
  PROVE  /\ begin' \in Seq(Nat) /\ end' \in Seq(Nat \ {0})
         /\ Len(begin) \in Nat
         /\ Len(begin') = Len(begin) + 1 /\ Len(end') = Len(begin) + 1
         /\ Chunks' = Chunks \cup {Len(begin) + 1}
         /\ \A c \in Chunks : begin'[c] = begin[c] /\ end'[c] = end[c]
         /\ begin'[Len(begin) + 1] = used /\ end'[Len(begin) + 1] = n
<1>1. begin \in Seq(Nat) /\ end \in Seq(Nat \ {0}) /\ Len(end) = Len(begin)
  BY DEF TypeOK
<1>2. begin' = Append(begin, used) /\ end' = Append(end, n)
  BY DEF AllocateChunk
<1>3. Len(begin) \in Nat
  BY <1>1
<1>4. /\ begin' \in Seq(Nat) /\ Len(begin') = Len(begin) + 1
      /\ \A i \in 1 .. Len(begin) : begin'[i] = begin[i]
      /\ begin'[Len(begin) + 1] = used
  BY <1>1, <1>2, AppendFacts
<1>5. /\ end' \in Seq(Nat \ {0}) /\ Len(end') = Len(end) + 1
      /\ \A i \in 1 .. Len(end) : end'[i] = end[i]
      /\ end'[Len(end) + 1] = n
  BY <1>1, <1>2, AppendFacts
<1>6. Chunks' = 1 .. (Len(begin) + 1)
  BY <1>4 DEF Chunks
<1>7. 1 .. (Len(begin) + 1) = 1 .. Len(begin) \cup {Len(begin) + 1}
  BY <1>3
<1> QED
  BY <1>1, <1>3, <1>4, <1>5, <1>6, <1>7 DEF Chunks

\* Setting one element of a sequence.
LEMMA ExceptFacts ==
  ASSUME NEW S, NEW seq \in Seq(S), NEW i \in 1 .. Len(seq), NEW e \in S,
         NEW res, res = [seq EXCEPT ![i] = e]
  PROVE  /\ res \in Seq(S)
         /\ Len(res) = Len(seq)
         /\ \A j \in 1 .. Len(seq) : res[j] = IF j = i THEN e ELSE seq[j]
OBVIOUS

\* Setting one header field of one chunk.
LEMMA SetBegin ==
  ASSUME TypeOK, NEW c \in Chunks, NEW v \in Nat, begin' = [begin EXCEPT ![c] = v]
  PROVE  /\ begin' \in Seq(Nat)
         /\ Len(begin') = Len(begin)
         /\ \A d \in Chunks : begin'[d] = IF d = c THEN v ELSE begin[d]
<1>1. begin \in Seq(Nat) /\ c \in 1 .. Len(begin)
  BY DEF TypeOK, Chunks
<1>2. \A d \in Chunks : d \in 1 .. Len(begin)
  BY DEF Chunks
<1> QED
  BY <1>1, <1>2, ExceptFacts

\* Setting one element of a sequence and appending another.
LEMMA LinkSequence ==
  ASSUME NEW seq \in Seq(Nat), NEW i \in 1 .. Len(seq), NEW v \in Nat,
         NEW mid, mid = [seq EXCEPT ![i] = v],
         NEW res, res = Append(mid, 0)
  PROVE  /\ res \in Seq(Nat)
         /\ Len(res) = Len(seq) + 1
         /\ \A d \in 1 .. Len(seq) : res[d] = IF d = i THEN v ELSE seq[d]
         /\ res[Len(seq) + 1] = 0
<1>1. /\ mid \in Seq(Nat) /\ Len(mid) = Len(seq)
      /\ \A d \in 1 .. Len(seq) : mid[d] = IF d = i THEN v ELSE seq[d]
  BY ExceptFacts
<1>2. \A s \in Seq(Nat) : \A r :
        r = Append(s, 0) => /\ r \in Seq(Nat)
                            /\ Len(r) = Len(s) + 1
                            /\ \A d \in 1 .. Len(s) : r[d] = s[d]
                            /\ r[Len(s) + 1] = 0
  BY AppendFacts
<1>3. /\ res \in Seq(Nat) /\ Len(res) = Len(mid) + 1
      /\ \A d \in 1 .. Len(mid) : res[d] = mid[d]
      /\ res[Len(mid) + 1] = 0
  BY <1>1, <1>2
<1> QED BY <1>1, <1>3

\* Linking the last chunk to a new one.
LEMMA LinkFacts ==
  ASSUME TypeOK, NEW c \in Chunks,
         nextChunk' = Append([nextChunk EXCEPT ![c] = Len(begin) + 1], 0)
  PROVE  /\ nextChunk' \in Seq(Nat)
         /\ Len(nextChunk') = Len(begin) + 1
         /\ \A d \in Chunks :
              nextChunk'[d] = IF d = c THEN Len(begin) + 1 ELSE nextChunk[d]
         /\ nextChunk'[Len(begin) + 1] = 0
<1>1. nextChunk \in Seq(Nat) /\ Len(nextChunk) = Len(begin)
  BY DEF TypeOK
<1>2. Len(begin) + 1 \in Nat /\ c \in 1 .. Len(nextChunk)
  BY <1>1, HeaderTypes DEF Chunks
<1> QED
  BY <1>1, <1>2, LinkSequence DEF Chunks

-----------------------------------------------------------------------------
LEMMA InitControl == Init => ControlInv
<1> SUFFICES ASSUME Init PROVE ControlInv
  OBVIOUS
<1>1. Len(begin) = 0 /\ Chunks = {} /\ Quiescent
  BY DEF Init, Chunks, Quiescent
<1>2. begin \in Seq(Nat) /\ end \in Seq(Nat \ {0}) /\ nextChunk \in Seq(Nat)
      /\ Len(end) = Len(begin) /\ Len(nextChunk) = Len(begin)
  BY <1>1 DEF Init
<1>3. pc \in [Threads -> Labels] /\ calls \in 0 .. MaxAllocations
  BY BoundAssumption DEF Init, Labels
<1>4. TypeOK
  BY <1>1, <1>2, <1>3 DEF Init, TypeOK
<1>5. LockInv
  BY <1>1, NoThreadAssumption DEF Init, LockInv, Holding
<1> QED
  BY <1>1, <1>4, <1>5 DEF Init, ControlInv, LinkInv, CursorInv

\* The steps of a thread that leave the headers of the chunks alone.
LEMMA MoveKeepsControl ==
  ASSUME ControlInv, NEW t \in Threads,
         \/ CheckFirst(t) \/ PublishCurrent(t) \/ PublishFirst(t)
         \/ LoadCurrent(t) \/ PublishGrown(t)
  PROVE  ControlInv'
<1> USE DEF ControlInv, Goto
<1>1. UNCHANGED <<begin, end, nextChunk>> /\ Chunks' = Chunks
  BY DEF CheckFirst, PublishCurrent, PublishFirst, LoadCurrent, PublishGrown, headerVars, Chunks
<1>2. UNCHANGED <<mode, cursor, walked>>
  BY DEF CheckFirst, PublishCurrent, PublishFirst, LoadCurrent, PublishGrown, walkVars
<1>3. mode = "use"
  BY DEF CheckFirst, PublishCurrent, PublishFirst, LoadCurrent, PublishGrown, CursorInv, Quiescent
<1>4. LinkInv' /\ CursorInv'
  BY <1>1, <1>2, <1>3 DEF LinkInv, CursorInv
<1>5. Len(begin) \in Nat
  BY DEF TypeOK
<1>6. CASE CheckFirst(t)
  <2>1. TypeOK'
    <3>1. calls' \in 0 .. MaxAllocations
      BY <1>6, BoundAssumption DEF CheckFirst, TypeOK
    <3>2. pc' \in [Threads -> Labels]
      BY <1>6 DEF CheckFirst, TypeOK, Labels
    <3> QED BY <1>1, <1>2, <1>6, <3>1, <3>2 DEF CheckFirst, TypeOK
  <2>2. LockInv'
    BY <1>1, <1>5, <1>6, NoThreadAssumption, ZenonT(60) DEF CheckFirst, TypeOK, LockInv, Holding
  <2> QED BY <2>1, <2>2, <1>4
<1>7. CASE PublishCurrent(t)
  <2>1. TypeOK'
    BY <1>1, <1>2, <1>5, <1>7 DEF PublishCurrent, TypeOK, Labels
  <2>2. LockInv'
    BY <1>1, <1>5, <1>7, NoThreadAssumption, SMTT(40) DEF PublishCurrent, TypeOK, LockInv, Holding
  <2> QED BY <2>1, <2>2, <1>4
<1>8. CASE PublishFirst(t)
  <2>1. TypeOK'
    BY <1>1, <1>2, <1>5, <1>8 DEF PublishFirst, TypeOK, Labels
  <2>2. LockInv'
    BY <1>1, <1>5, <1>8, NoThreadAssumption, SMTT(40) DEF PublishFirst, TypeOK, LockInv, Holding
  <2> QED BY <2>1, <2>2, <1>4
<1>9. CASE LoadCurrent(t)
  <2>1. TypeOK'
    BY <1>1, <1>2, <1>5, <1>9 DEF LoadCurrent, TypeOK, Labels
  <2>2. LockInv'
    <3>1. /\ pc[t] = "loadCurrent" /\ pc'[t] = "fetchAdd" /\ chunk'[t] = currentChunk
          /\ \A u \in Threads : u # t => pc'[u] = pc[u] /\ chunk'[u] = chunk[u]
          /\ UNCHANGED <<firstChunk, currentChunk, lock, ptr>>
      BY <1>9 DEF LoadCurrent, TypeOK
    <3>2. firstChunk = 1 /\ currentChunk \in 1 .. currentChunk
      BY <3>1 DEF LockInv, TypeOK
    <3> QED
      BY <1>1, <3>1, <3>2 DEF LockInv, Holding
  <2> QED BY <2>1, <2>2, <1>4
<1>10. CASE PublishGrown(t)
  <2>1. TypeOK'
    <3>1. chunk[t] \in Nat /\ ptr[t] \in Nat /\ chunk[t] = Len(begin)
      BY <1>10 DEF PublishGrown, TypeOK, LockInv
    <3>2. handed' \in SUBSET (Nat \X Nat)
      BY <1>10, <3>1 DEF PublishGrown, TypeOK
    <3>3. pc' \in [Threads -> Labels]
      BY <1>10 DEF PublishGrown, TypeOK, Labels
    <3>4. currentChunk' \in 0 .. Len(begin')
      BY <1>1, <1>5, <1>10, <3>1 DEF PublishGrown
    <3> QED
      BY <1>1, <1>2, <1>10, <3>2, <3>3, <3>4 DEF PublishGrown, TypeOK
  <2>2. LockInv'
    BY <1>1, <1>5, <1>10, NoThreadAssumption, SMTT(40) DEF PublishGrown, TypeOK, LockInv, Holding
  <2> QED BY <2>1, <2>2, <1>4
<1> QED
  BY <1>6, <1>7, <1>8, <1>9, <1>10

\* The steps that move begin of one chunk.
LEMMA BeginKeepsControl ==
  ASSUME ControlInv, NEW t \in Threads, FetchAdd(t) \/ PutBack(t)
  PROVE  /\ ControlInv'
         /\ Chunks' = Chunks /\ chunk[t] \in Chunks /\ chunk[t] <= currentChunk
         /\ FetchAdd(t) => \A d \in Chunks :
              begin'[d] = IF d = chunk[t] THEN begin[d] + 1 ELSE begin[d]
         /\ PutBack(t) =>
              \/ begin' = begin
              \/ /\ begin[chunk[t]] = ptr[t] + 1
                 /\ \A d \in Chunks :
                      begin'[d] = IF d = chunk[t] THEN end[d] ELSE begin[d]
<1> USE DEF ControlInv, Goto
<1> DEFINE c == chunk[t]
<1>1. c \in Chunks /\ c <= currentChunk
  BY DEF FetchAdd, PutBack, LockInv, TypeOK, Chunks
<1>2. Len(begin) \in Nat /\ begin[c] \in Nat /\ end[c] \in Nat \ {0} /\ ptr[t] \in Nat /\ c \in Nat
  <2>1. ptr[t] \in Nat
    BY DEF TypeOK
  <2> QED BY <1>1, <2>1, HeaderTypes
<1>3. UNCHANGED <<firstChunk, currentChunk, end, nextChunk, lock, chunk, calls>>
      /\ UNCHANGED <<mode, cursor, walked>> /\ mode = "use"
  BY DEF FetchAdd, PutBack, walkVars, CursorInv, Quiescent
<1>4. CASE FetchAdd(t)
  <2>1. begin' = [begin EXCEPT ![c] = begin[c] + 1] /\ begin[c] + 1 \in Nat
    BY <1>2, <1>4 DEF FetchAdd
  <2>2. /\ begin' \in Seq(Nat) /\ Len(begin') = Len(begin)
        /\ \A d \in Chunks : begin'[d] = IF d = c THEN begin[c] + 1 ELSE begin[d]
    BY <1>1, <2>1, SetBegin
  <2>3. Chunks' = Chunks
    BY <2>2 DEF Chunks
  <2>4. TypeOK'
    <3>1. handed' \in SUBSET (Nat \X Nat)
      <4>1. <<c, begin[c]>> \in Nat \X Nat /\ handed \in SUBSET (Nat \X Nat)
        BY <1>2 DEF TypeOK
      <4>2. handed' = handed \cup {<<c, begin[c]>>} \/ handed' = handed
        BY <1>4 DEF FetchAdd
      <4> QED BY <4>1, <4>2
    <3>2. pc' \in [Threads -> Labels]
      BY <1>4 DEF FetchAdd, TypeOK, Labels
    <3>3. ptr' \in [Threads -> Nat]
      BY <1>2, <1>4 DEF FetchAdd, TypeOK
    <3> QED BY <1>3, <2>2, <3>1, <3>2, <3>3 DEF TypeOK
  <2>5. LockInv'
    BY <1>3, <1>4, <2>2, NoThreadAssumption, ZenonT(60) DEF FetchAdd, TypeOK, LockInv, Holding
  <2>6. LinkInv' /\ CursorInv'
    BY <1>3, <2>2, <2>3 DEF LinkInv, CursorInv
  <2> QED BY <1>1, <1>4, <2>2, <2>3, <2>4, <2>5, <2>6 DEF FetchAdd, PutBack
<1>5. CASE PutBack(t)
  <2>1. \/ begin' = begin
        \/ begin[c] = ptr[t] + 1 /\ begin' = [begin EXCEPT ![c] = end[c]]
    BY <1>5 DEF PutBack
  <2>2. /\ begin' \in Seq(Nat) /\ Len(begin') = Len(begin)
        /\ \/ begin' = begin
           \/ /\ begin[c] = ptr[t] + 1
              /\ \A d \in Chunks : begin'[d] = IF d = c THEN end[c] ELSE begin[d]
    <3>1. CASE begin' = begin
      BY <3>1 DEF TypeOK
    <3>2. CASE begin[c] = ptr[t] + 1 /\ begin' = [begin EXCEPT ![c] = end[c]]
      BY <1>1, <1>2, <3>2, SetBegin
    <3> QED BY <2>1, <3>1, <3>2
  <2>3. Chunks' = Chunks
    BY <2>2 DEF Chunks
  <2>4. TypeOK'
    <3>2. pc' \in [Threads -> Labels]
      BY <1>5 DEF PutBack, TypeOK, Labels
    <3> QED BY <1>3, <1>5, <2>2, <3>2 DEF PutBack, TypeOK
  <2>5. LockInv'
    BY <1>3, <1>5, <2>2, NoThreadAssumption, ZenonT(60) DEF PutBack, TypeOK, LockInv, Holding
  <2>6. LinkInv' /\ CursorInv'
    BY <1>3, <2>2, <2>3 DEF LinkInv, CursorInv
  <2> QED BY <1>1, <1>5, <2>2, <2>3, <2>4, <2>5, <2>6 DEF FetchAdd, PutBack
<1> QED BY <1>4, <1>5

\* The steps that add a chunk.
LEMMA FirstKeepsControl ==
  ASSUME ControlInv, NEW t \in Threads, LockFirst(t)
  PROVE  ControlInv'
<1> USE DEF ControlInv, Goto
<1>1. UNCHANGED <<firstChunk, currentChunk, chunk, ptr, calls, handed, mode, cursor, walked>>
      /\ mode = "use" /\ pc' \in [Threads -> Labels] /\ lock = NoThread
  BY DEF LockFirst, walkVars, CursorInv, Quiescent, TypeOK, Labels
<1>2. CASE firstChunk # 0
  <2>1. UNCHANGED <<begin, end, nextChunk, lock>>
    BY <1>2 DEF LockFirst, headerVars
  <2>2. TypeOK'
    BY <1>1, <2>1 DEF TypeOK
  <2>3. LockInv'
    BY <1>1, <1>2, <2>1, NoThreadAssumption, SMTT(40) DEF LockFirst, TypeOK, LockInv, Holding
  <2>4. LinkInv' /\ CursorInv'
    BY <1>1, <2>1 DEF LinkInv, CursorInv, Chunks
  <2> QED BY <2>2, <2>3, <2>4
<1>3. CASE firstChunk = 0
  <2>1. Len(begin) = 0 /\ currentChunk = 0 /\ Chunks = {}
    BY <1>1, <1>3 DEF LockInv, Chunks
  <2>2. AllocateChunk(FirstCapacity, 0) /\ nextChunk' = Append(nextChunk, 0) /\ lock' = t
        /\ pc' = [pc EXCEPT ![t] = "publishCurrent"]
    BY <1>3 DEF LockFirst
  <2>3. begin' \in Seq(Nat) /\ end' \in Seq(Nat \ {0}) /\ Len(begin') = 1 /\ Len(end') = 1
        /\ Chunks' = {1}
    <3>1. FirstCapacity \in Nat \ {0} /\ 0 \in Nat
      BY CapacityAssumption
    <3> QED BY <2>1, <2>2, <3>1, AllocateChunkFacts
  <2>4. nextChunk' \in Seq(Nat) /\ Len(nextChunk') = 1 /\ nextChunk'[1] = 0
    <3>1. nextChunk \in Seq(Nat) /\ Len(nextChunk) = 0 /\ 0 \in Nat
      BY <2>1 DEF TypeOK
    <3> QED BY <2>2, <3>1, AppendFacts
  <2>5. TypeOK'
    BY <1>1, <2>1, <2>2, <2>3, <2>4 DEF TypeOK
  <2>6. LockInv'
    BY <1>1, <1>3, <2>1, <2>2, <2>3, NoThreadAssumption, SMTT(40) DEF TypeOK, LockInv, Holding
  <2>7. LinkInv' /\ CursorInv'
    BY <1>1, <2>1, <2>3, <2>4 DEF LinkInv, CursorInv
  <2> QED BY <2>5, <2>6, <2>7
<1> QED BY <1>2, <1>3

LEMMA GrowKeepsControl ==
  ASSUME ControlInv, NEW t \in Threads, Grow(t)
  PROVE  /\ ControlInv'
         /\ \/ UNCHANGED <<begin, end, nextChunk, chunk, ptr, handed, currentChunk>>
               /\ pc' = [pc EXCEPT ![t] = "loadCurrent"]
            \/ /\ lock = NoThread /\ currentChunk = Len(begin) /\ currentChunk \in Chunks
               /\ begin[currentChunk] >= end[currentChunk]
               /\ Chunks' = Chunks \cup {Len(begin) + 1}
               /\ \A d \in Chunks : begin'[d] = begin[d] /\ end'[d] = end[d]
               /\ begin'[Len(begin) + 1] = 1
               /\ chunk' = [chunk EXCEPT ![t] = Len(begin) + 1]
               /\ ptr' = [ptr EXCEPT ![t] = 0]
               /\ pc' = [pc EXCEPT ![t] = "publishGrown"]
               /\ UNCHANGED <<handed, currentChunk>>
<1> USE DEF ControlInv, Goto
<1> DEFINE c == currentChunk
<1>1. UNCHANGED <<firstChunk, currentChunk, calls, handed, mode, cursor, walked>>
      /\ mode = "use" /\ pc' \in [Threads -> Labels] /\ lock = NoThread
  BY DEF Grow, walkVars, CursorInv, Quiescent, TypeOK, Labels
<1>2. c = Len(begin) /\ c \in Chunks /\ firstChunk = 1
  BY <1>1 DEF Grow, LockInv, Chunks, TypeOK
<1>3. Len(begin) \in Nat /\ begin[c] \in Nat /\ end[c] \in Nat \ {0} /\ c \in Nat
  BY <1>2, HeaderTypes
<1>4. CASE begin[c] < end[c]
  <2>1. UNCHANGED <<begin, end, nextChunk, lock, chunk, ptr>>
        /\ pc' = [pc EXCEPT ![t] = "loadCurrent"]
    BY <1>4 DEF Grow, headerVars
  <2>2. TypeOK'
    BY <1>1, <2>1 DEF TypeOK
  <2>3. LockInv'
    BY <1>1, <1>2, <2>1, NoThreadAssumption, SMTT(40) DEF TypeOK, LockInv, Holding
  <2>4. LinkInv' /\ CursorInv'
    BY <1>1, <2>1 DEF LinkInv, CursorInv, Chunks
  <2> QED BY <1>1, <2>1, <2>2, <2>3, <2>4
<1>5. CASE ~(begin[c] < end[c])
  <2>1. /\ AllocateChunk(end[c] * 2, 1)
        /\ nextChunk' = Append([nextChunk EXCEPT ![c] = Len(begin) + 1], 0)
        /\ chunk' = [chunk EXCEPT ![t] = Len(begin) + 1]
        /\ ptr' = [ptr EXCEPT ![t] = 0]
        /\ lock' = t
        /\ pc' = [pc EXCEPT ![t] = "publishGrown"]
    BY <1>5 DEF Grow
  <2>2. /\ begin' \in Seq(Nat) /\ end' \in Seq(Nat \ {0})
        /\ Len(begin') = Len(begin) + 1 /\ Len(end') = Len(begin) + 1
        /\ Chunks' = Chunks \cup {Len(begin) + 1}
        /\ \A d \in Chunks : begin'[d] = begin[d] /\ end'[d] = end[d]
        /\ begin'[Len(begin) + 1] = 1
    <3>1. end[c] * 2 \in Nat \ {0} /\ 1 \in Nat
      BY <1>3
    <3> QED BY <2>1, <3>1, AllocateChunkFacts
  <2>3. /\ nextChunk' \in Seq(Nat)
        /\ Len(nextChunk') = Len(begin) + 1
        /\ \A d \in Chunks : nextChunk'[d] = IF d = c THEN Len(begin) + 1 ELSE nextChunk[d]
        /\ nextChunk'[Len(begin) + 1] = 0
    BY <1>2, <2>1, LinkFacts
  <2>4. TypeOK'
    <3>1. chunk' \in [Threads -> Nat] /\ ptr' \in [Threads -> Nat] /\ lock' \in Threads
      <4>1. Len(begin) + 1 \in Nat /\ 0 \in Nat
        BY <1>3
      <4>2. chunk \in [Threads -> Nat] /\ ptr \in [Threads -> Nat]
        BY DEF TypeOK
      <4> QED BY <2>1, <4>1, <4>2
    <3>2. currentChunk' \in 0 .. Len(begin') /\ firstChunk' \in 0 .. Len(begin')
      BY <1>1, <1>2, <1>3, <2>2
    <3> QED BY <1>1, <2>2, <2>3, <3>1, <3>2 DEF TypeOK
  <2>5. LockInv'
    BY <1>1, <1>2, <1>3, <2>1, <2>2, NoThreadAssumption, ZenonT(60) DEF TypeOK, LockInv, Holding
  <2>6. LinkInv' /\ CursorInv'
    <3>1. LinkInv'
      <4> SUFFICES ASSUME NEW d \in Chunks'
                   PROVE  nextChunk'[d] = IF d = Len(begin') THEN 0 ELSE d + 1
        BY DEF LinkInv
      <4>1. CASE d = Len(begin) + 1
        BY <2>2, <2>3, <4>1
      <4>2. CASE d \in Chunks
        <5>1. d \in Nat /\ d <= Len(begin)
          BY <1>3, <4>2 DEF Chunks
        <5>2. nextChunk[d] = IF d = Len(begin) THEN 0 ELSE d + 1
          BY <4>2 DEF LinkInv
        <5> QED BY <1>2, <1>3, <2>2, <2>3, <4>2, <5>1, <5>2
      <4> QED BY <2>2, <4>1, <4>2
    <3>2. CursorInv'
      BY <1>1, <1>3, <2>2 DEF CursorInv
    <3> QED BY <3>1, <3>2
  <2> QED BY <1>1, <1>2, <1>3, <1>5, <2>1, <2>2, <2>4, <2>5, <2>6
<1> QED BY <1>4, <1>5

-----------------------------------------------------------------------------
\* The steps of the owner.
LEMMA WalkKeepsControl ==
  ASSUME ControlInv,
         StartWalk("iterate") \/ StartWalk("free") \/ Walk
  PROVE  /\ ControlInv'
         /\ UNCHANGED <<firstChunk, currentChunk, begin, end, nextChunk, lock,
                        pc, chunk, ptr, calls, handed>>
         /\ Quiescent
<1> USE DEF ControlInv
<1>1. UNCHANGED <<firstChunk, currentChunk, begin, end, nextChunk, lock,
                  pc, chunk, ptr, calls, handed>>
      /\ Chunks' = Chunks /\ Quiescent' = Quiescent
  BY DEF StartWalk, Walk, IterateStep, IterateEnd, FreeStep, FreeEnd, headerVars,
         threadVars, Chunks, Quiescent
<1>2. Quiescent
  BY DEF StartWalk, Walk, IterateStep, IterateEnd, FreeStep, FreeEnd, CursorInv
<1>3. LinkInv' /\ LockInv'
  BY <1>1 DEF LinkInv, LockInv
<1>4. cursor.chunk \in Nat /\ cursor.slot \in Nat /\ Len(begin) \in Nat
      /\ <<cursor.chunk, cursor.slot>> \in Nat \X Nat
  BY DEF TypeOK
<1>5. SUFFICES /\ mode' \in {"use", "iterate", "free", "gone"}
               /\ cursor' \in [chunk : Nat, slot : Nat]
               /\ walked' \in SUBSET (Nat \X Nat)
               /\ cursor'.chunk \in 0 .. Len(begin)
               /\ mode' = "iterate" /\ cursor'.chunk = 0 => AtEnd'
  BY <1>1, <1>2, <1>3, <1>5 DEF TypeOK, CursorInv
<1>6. ASSUME NEW what \in {"iterate", "free"}, StartWalk(what)
      PROVE  /\ mode' \in {"use", "iterate", "free", "gone"}
             /\ cursor' \in [chunk : Nat, slot : Nat]
             /\ walked' \in SUBSET (Nat \X Nat)
             /\ cursor'.chunk \in 0 .. Len(begin)
             /\ mode' = "iterate" /\ cursor'.chunk = 0 => AtEnd'
  <2>1. cursor' = [chunk |-> firstChunk, slot |-> 0] /\ mode' = what /\ walked' = {}
    BY <1>6 DEF StartWalk
  <2>2. firstChunk \in 0 .. Len(begin) /\ firstChunk \in Nat
    BY DEF TypeOK
  <2>3. firstChunk = 0 => currentChunk = 0
    <3>1. lock = NoThread
      BY <1>2 DEF LockInv, TypeOK, Quiescent, Holding
    <3> QED BY <3>1 DEF LockInv
  <2>4. firstChunk = 0 => AtEnd'
    BY <1>1, <2>1, <2>3 DEF AtEnd
  <2> QED BY <1>6, <2>1, <2>2, <2>4
<1>7. CASE IterateStep
  <2>1. cursor.chunk \in Chunks
    BY <1>4, <1>7 DEF IterateStep, CursorInv, Chunks
  <2>2. Increment \in [chunk : Nat, slot : Nat] /\ Increment.chunk \in Chunks
    <3>1. CASE cursor.slot + 1 = begin[cursor.chunk] /\ nextChunk[cursor.chunk] # 0
      <4>1. nextChunk[cursor.chunk] \in Chunks /\ nextChunk[cursor.chunk] \in Nat
        BY <1>4, <2>1, <3>1, HeaderTypes DEF LinkInv, Chunks
      <4> QED BY <3>1, <4>1 DEF Increment
    <3>2. CASE ~(cursor.slot + 1 = begin[cursor.chunk] /\ nextChunk[cursor.chunk] # 0)
      <4>1. Increment = [chunk |-> cursor.chunk, slot |-> cursor.slot + 1]
        BY <3>2 DEF Increment
      <4> QED BY <1>4, <2>1, <4>1
    <3> QED BY <3>1, <3>2
  <2>3. cursor' = Increment /\ mode' = mode
        /\ walked' = walked \cup {<<cursor.chunk, cursor.slot>>}
    BY <1>7 DEF IterateStep
  <2>4. walked' \in SUBSET (Nat \X Nat)
    BY <1>4, <2>3 DEF TypeOK
  <2>5. cursor'.chunk \in 0 .. Len(begin) /\ cursor'.chunk # 0
    BY <1>4, <2>2, <2>3 DEF Chunks
  <2> QED BY <2>2, <2>3, <2>4, <2>5 DEF TypeOK
<1>8. CASE IterateEnd
  BY <1>8 DEF IterateEnd, TypeOK, CursorInv
<1>9. CASE FreeStep
  <2>1. cursor.chunk \in Chunks /\ mode' = "free"
    BY <1>4, <1>9 DEF FreeStep, CursorInv, Chunks
  <2>2. walked' = walked \/ walked' = walked \cup {<<cursor.chunk, cursor.slot>>}
    BY <1>9 DEF FreeStep
  <2>3. walked' \in SUBSET (Nat \X Nat)
    BY <1>4, <2>2 DEF TypeOK
  <2>4. cursor' = [chunk |-> cursor.chunk, slot |-> cursor.slot + 1]
        \/ cursor' = [chunk |-> nextChunk[cursor.chunk], slot |-> 0]
    BY <1>9 DEF FreeStep
  <2>5. nextChunk[cursor.chunk] \in 0 .. Len(begin) /\ nextChunk[cursor.chunk] \in Nat
    BY <1>4, <2>1, HeaderTypes DEF LinkInv, Chunks
  <2>6. cursor.chunk \in 0 .. Len(begin)
    BY DEF CursorInv
  <2>7. cursor' \in [chunk : Nat, slot : Nat] /\ cursor'.chunk \in 0 .. Len(begin)
    BY <1>4, <2>4, <2>5, <2>6
  <2> QED BY <2>1, <2>3, <2>7
<1>10. CASE FreeEnd
  BY <1>10 DEF FreeEnd, TypeOK, CursorInv
<1> QED BY <1>6, <1>7, <1>8, <1>9, <1>10 DEF Walk

\* Every step keeps the control invariant.
LEMMA NextControl == ControlInv /\ [Next]_vars => ControlInv'
<1> SUFFICES ASSUME ControlInv, [Next]_vars PROVE ControlInv'
  OBVIOUS
<1>1. ASSUME NEW t \in Threads, CheckFirst(t) \/ Allocate(t) PROVE ControlInv'
  BY <1>1, MoveKeepsControl, BeginKeepsControl, FirstKeepsControl, GrowKeepsControl
     DEF Allocate
<1>2. CASE StartWalk("iterate") \/ StartWalk("free") \/ Walk
  BY <1>2, WalkKeepsControl
<1>3. CASE UNCHANGED vars
  BY <1>3 DEF vars, headerVars, threadVars, walkVars, ControlInv, TypeOK, LockInv, LinkInv,
              CursorInv, Chunks, Quiescent, AtEnd
<1> QED BY <1>1, <1>2, <1>3 DEF Next

\* TypeOK holds in every reachable state, for any number of threads and allocations.
THEOREM TypeCorrect == Spec => []TypeOK
<1>1. Init => ControlInv
  BY InitControl
<1>2. ControlInv /\ [Next]_vars => ControlInv'
  BY NextControl
<1>3. ControlInv => TypeOK
  BY DEF ControlInv
<1> QED BY <1>1, <1>2, <1>3, PTL DEF Spec

-----------------------------------------------------------------------------
\* Which chunk is unpublished depends on the thread that grows the pool only.
LEMMA UnpublishedKept ==
  ASSUME ControlInv, NEW t \in Threads, NEW l \in Labels \ {"publishGrown"}, NEW x,
         pc[t] # "publishGrown", pc' = [pc EXCEPT ![t] = l],
         chunk' = chunk \/ chunk' = [chunk EXCEPT ![t] = x]
  PROVE  \A c : Unpublished(c)' <=> Unpublished(c)
<1>1. pc \in [Threads -> Labels] /\ chunk \in [Threads -> Nat]
  BY DEF ControlInv, TypeOK
<1>2. \A u \in Threads : pc'[u] = "publishGrown" <=> pc[u] = "publishGrown"
  BY <1>1
<1>3. \A u \in Threads : u # t => chunk'[u] = chunk[u]
  BY <1>1
<1> QED BY <1>2, <1>3 DEF Unpublished

LEMMA InitSlots == Init => SlotInv
<1> SUFFICES ASSUME Init PROVE SlotInv
  OBVIOUS
<1>1. Chunks = {}
  BY DEF Init, Chunks
<1> QED BY <1>1 DEF Init, SlotInv

\* The new slots a thread gets are those that nobody had.
LEMMA AllocateKeepsSlots ==
  ASSUME ControlInv, ControlInv', SlotInv, NEW t \in Threads, CheckFirst(t) \/ Allocate(t)
  PROVE  /\ SlotInv'
         /\ pc[t] # "idle" /\ pc'[t] = "idle" => <<chunk'[t], ptr'[t]>> \notin handed
         /\ \A u \in Threads : u # t => pc'[u] = pc[u]
<1> USE DEF Goto
<1>1. pc \in [Threads -> Labels] /\ chunk \in [Threads -> Nat] /\ ptr \in [Threads -> Nat]
      /\ Len(begin) \in Nat /\ handed \in SUBSET (Nat \X Nat)
  <2>1. Len(begin) \in Nat
    BY DEF ControlInv, TypeOK
  <2> QED BY <2>1 DEF ControlInv, TypeOK
<1>2. \A c \in Chunks : begin[c] \in Nat /\ end[c] \in Nat \ {0} /\ c \in Nat /\ c <= Len(begin)
  BY HeaderTypes DEF ControlInv
<1>3. \A c : Unpublished(c) => c = currentChunk + 1 /\ c = Len(begin)
  BY DEF Unpublished, ControlInv, LockInv
<1>4. CASE CheckFirst(t) \/ PublishCurrent(t) \/ PublishFirst(t) \/ LoadCurrent(t)
  <2>1. UNCHANGED <<begin, end, handed, ptr>> /\ Chunks' = Chunks
    BY <1>4 DEF CheckFirst, PublishCurrent, PublishFirst, LoadCurrent, headerVars, Chunks
  <2>2. \A c : Unpublished(c)' <=> Unpublished(c)
    BY <1>4, UnpublishedKept DEF CheckFirst, PublishCurrent, PublishFirst, LoadCurrent, Labels
  <2>3. \A u \in Threads : pc'[u] = "putBack" => pc[u] = "putBack" /\ chunk'[u] = chunk[u]
    BY <1>1, <1>4 DEF CheckFirst, PublishCurrent, PublishFirst, LoadCurrent
  <2>4. SlotInv'
    BY <2>1, <2>2, <2>3 DEF SlotInv
  <2>5. pc'[t] # "idle" /\ \A u \in Threads : u # t => pc'[u] = pc[u]
    BY <1>1, <1>4 DEF CheckFirst, PublishCurrent, PublishFirst, LoadCurrent
  <2> QED BY <2>4, <2>5
<1>5. CASE PublishGrown(t)
  <2> DEFINE c == chunk[t]
  <2>1. Unpublished(c) /\ c = Len(begin) /\ c \in Chunks /\ ptr[t] = 0
    BY <1>1, <1>5 DEF PublishGrown, Unpublished, ControlInv, LockInv, Chunks, TypeOK
  <2>2. \A d : ~Unpublished(d)'
    <3>1. \A u \in Threads : pc[u] = "publishGrown" => u = t
      BY <1>5 DEF PublishGrown, ControlInv, LockInv, Holding
    <3>2. \A u \in Threads : pc'[u] # "publishGrown"
      BY <1>1, <1>5, <3>1 DEF PublishGrown
    <3> QED BY <3>2 DEF Unpublished
  <2>3. UNCHANGED <<begin, end, chunk, ptr>> /\ Chunks' = Chunks
        /\ handed' = handed \cup {<<c, 0>>}
    BY <1>5, <2>1 DEF PublishGrown, headerVars, Chunks
  <2>4. begin[c] = 1
    BY <2>1 DEF SlotInv
  <2>5. \A u \in Threads : pc'[u] = "putBack" => pc[u] = "putBack"
    BY <1>1, <1>5 DEF PublishGrown
  <2>6. SlotInv'
    <3>1. \A h \in handed' : h[1] \in Chunks /\ h[2] < begin[h[1]] /\ h[2] < end[h[1]]
      BY <1>2, <2>1, <2>3, <2>4 DEF SlotInv
    <3>2. \A d \in Chunks : \A s \in 0 .. end[d] - 1 : s < begin[d] => <<d, s>> \in handed'
      <4> SUFFICES ASSUME NEW d \in Chunks, NEW s \in 0 .. end[d] - 1, s < begin[d]
                   PROVE  <<d, s>> \in handed'
        OBVIOUS
      <4>1. CASE Unpublished(d)
        <5>1. d = c /\ s = 0
          BY <1>2, <1>3, <2>1, <2>4, <4>1
        <5> QED BY <2>3, <5>1
      <4>2. CASE ~Unpublished(d)
        BY <2>3, <4>2 DEF SlotInv
      <4> QED BY <4>1, <4>2
    <3> QED BY <2>2, <2>3, <2>5, <3>1, <3>2 DEF SlotInv
  <2>7. <<chunk'[t], ptr'[t]>> \notin handed
    BY <2>1, <2>3 DEF SlotInv
  <2>8. \A u \in Threads : u # t => pc'[u] = pc[u]
    BY <1>5 DEF PublishGrown
  <2> QED BY <2>6, <2>7, <2>8
<1>6. CASE FetchAdd(t)
  <2> DEFINE c == chunk[t]
  <2>1. /\ Chunks' = Chunks /\ c \in Chunks /\ c <= currentChunk
        /\ \A d \in Chunks : begin'[d] = IF d = c THEN begin[d] + 1 ELSE begin[d]
    BY <1>6, BeginKeepsControl
  <2>2. UNCHANGED <<chunk, end, currentChunk>> /\ ptr' = [ptr EXCEPT ![t] = begin[c]]
        /\ Len(begin') = Len(begin)
    BY <1>6 DEF FetchAdd, ControlInv, TypeOK
  <2>3. \A d : Unpublished(d)' <=> Unpublished(d)
    BY <1>6, <2>2, UnpublishedKept DEF FetchAdd, Labels
  <2>4. ~Unpublished(c) /\ currentChunk \in Nat
    BY <1>2, <1>3, <2>1 DEF ControlInv, TypeOK
  <2>5. handed' = (IF begin[c] < end[c] THEN handed \cup {<<c, begin[c]>>} ELSE handed)
    BY <1>6 DEF FetchAdd
  <2>6. \A h \in handed' : h[1] \in Chunks /\ h[2] < begin'[h[1]] /\ h[2] < end[h[1]]
                           /\ ~Unpublished(h[1])
    <3> SUFFICES ASSUME NEW h \in handed'
                 PROVE  h[1] \in Chunks /\ h[2] < begin'[h[1]] /\ h[2] < end[h[1]]
                        /\ ~Unpublished(h[1])
      OBVIOUS
    <3>1. CASE h \in handed
      <4>1. h[1] \in Chunks /\ h[2] < begin[h[1]] /\ h[2] < end[h[1]] /\ ~Unpublished(h[1])
        BY <3>1 DEF SlotInv
      <4>2. h[2] \in Nat
        BY <1>1, <3>1
      <4> QED BY <1>2, <2>1, <4>1, <4>2
    <3>2. CASE h = <<c, begin[c]>> /\ begin[c] < end[c]
      BY <1>2, <2>1, <2>4, <3>2
    <3> QED BY <2>5, <3>1, <3>2
  <2>7. \A d \in Chunks : \A s \in 0 .. end[d] - 1 :
          s < begin'[d] /\ ~Unpublished(d) => <<d, s>> \in handed'
    <3> SUFFICES ASSUME NEW d \in Chunks, NEW s \in 0 .. end[d] - 1, s < begin'[d],
                        ~Unpublished(d)
                 PROVE  <<d, s>> \in handed'
      OBVIOUS
    <3>1. CASE s < begin[d]
      BY <2>5, <3>1 DEF SlotInv
    <3>2. CASE ~(s < begin[d])
      <4>1. d = c /\ s = begin[d] /\ begin[c] < end[c]
        BY <1>2, <2>1, <3>2
      <4> QED BY <2>5, <4>1
    <3> QED BY <3>1, <3>2
  <2>8. \A u \in Threads : pc'[u] = "putBack" => ptr'[u] >= end[chunk[u]]
    <3> SUFFICES ASSUME NEW u \in Threads, pc'[u] = "putBack" PROVE ptr'[u] >= end[chunk[u]]
      OBVIOUS
    <3>1. CASE u = t
      <4>1. ~(begin[c] < end[c])
        BY <1>1, <1>6, <3>1 DEF FetchAdd
      <4>2. ptr'[u] = begin[c]
        BY <1>1, <2>2, <3>1
      <4> QED BY <1>2, <2>1, <3>1, <4>1, <4>2
    <3>2. CASE u # t
      <4>1. pc[u] = "putBack" /\ ptr'[u] = ptr[u]
        BY <1>1, <1>6, <2>2, <3>2 DEF FetchAdd
      <4> QED BY <4>1 DEF SlotInv
    <3> QED BY <3>1, <3>2
  <2>9. \A d \in Chunks : /\ d < Len(begin) => begin'[d] >= end[d]
                          /\ Unpublished(d) => begin'[d] = 1
    BY <1>2, <2>1, <2>4 DEF SlotInv
  <2>10. SlotInv'
    BY <2>1, <2>2, <2>3, <2>6, <2>7, <2>8, <2>9 DEF SlotInv
  <2>11. pc'[t] = "idle" => <<chunk'[t], ptr'[t]>> \notin handed
    <3>1. chunk'[t] = c /\ ptr'[t] = begin[c]
      BY <1>1, <2>2
    <3> QED BY <1>2, <2>1, <3>1 DEF SlotInv
  <2>12. \A u \in Threads : u # t => pc'[u] = pc[u]
    BY <1>1, <1>6 DEF FetchAdd
  <2> QED BY <2>10, <2>11, <2>12
<1>7. CASE PutBack(t)
  <2> DEFINE c == chunk[t]
  <2>1. /\ Chunks' = Chunks /\ c \in Chunks /\ c <= currentChunk
        /\ \/ begin' = begin
           \/ /\ begin[c] = ptr[t] + 1
              /\ \A d \in Chunks : begin'[d] = IF d = c THEN end[d] ELSE begin[d]
    BY <1>7, BeginKeepsControl
  <2>2. UNCHANGED <<chunk, end, ptr, handed>> /\ Len(begin') = Len(begin)
        /\ pc[t] = "putBack" /\ pc' = [pc EXCEPT ![t] = "grow"]
    BY <1>7 DEF PutBack, ControlInv, TypeOK
  <2>3. \A d : Unpublished(d)' <=> Unpublished(d)
    BY <2>2, UnpublishedKept DEF Labels
  <2>4. ptr[t] >= end[c] /\ ptr[t] \in Nat
    BY <1>1, <2>2 DEF SlotInv
  <2>5. \A d \in Chunks : begin'[d] # begin[d] =>
          d = c /\ begin'[d] = end[d] /\ begin[d] > end[d]
    BY <1>2, <2>1, <2>4
  <2>6. ~Unpublished(c)
    BY <1>2, <1>3, <2>1 DEF ControlInv, TypeOK
  <2>7. \A h \in handed : h[1] \in Chunks /\ h[2] < begin'[h[1]] /\ h[2] < end[h[1]]
                           /\ ~Unpublished(h[1])
    BY <1>2, <2>5 DEF SlotInv
  <2>8. \A d \in Chunks : \A s \in 0 .. end[d] - 1 :
          s < begin'[d] /\ ~Unpublished(d) => <<d, s>> \in handed
    BY <1>2, <2>5 DEF SlotInv
  <2>9. \A d \in Chunks : /\ d < Len(begin) => begin'[d] >= end[d]
                          /\ Unpublished(d) => begin'[d] = 1
    BY <1>2, <2>5, <2>6 DEF SlotInv
  <2>10. \A u \in Threads : pc'[u] = "putBack" => pc[u] = "putBack"
    BY <1>1, <2>2
  <2>11. SlotInv'
    BY <2>1, <2>2, <2>3, <2>7, <2>8, <2>9, <2>10 DEF SlotInv
  <2> QED BY <1>1, <2>2, <2>11
<1>8. CASE LockFirst(t)
  <2>1. CASE firstChunk # 0
    <3>1. UNCHANGED <<begin, end, chunk, ptr, handed>> /\ Chunks' = Chunks
          /\ pc[t] = "lockFirst" /\ pc' = [pc EXCEPT ![t] = "loadCurrent"]
      BY <1>8, <2>1 DEF LockFirst, headerVars, Chunks
    <3>2. \A d : Unpublished(d)' <=> Unpublished(d)
      BY <3>1, UnpublishedKept DEF Labels
    <3>3. \A u \in Threads : pc'[u] = "putBack" => pc[u] = "putBack"
      BY <1>1, <3>1
    <3> QED BY <1>1, <3>1, <3>2, <3>3 DEF SlotInv
  <2>2. CASE firstChunk = 0
    <3>1. Len(begin) = 0 /\ Chunks = {} /\ lock = NoThread
      BY <1>8, <2>2 DEF LockFirst, ControlInv, LockInv, Chunks
    <3>2. UNCHANGED <<chunk, ptr, handed>> /\ AllocateChunk(FirstCapacity, 0)
          /\ pc[t] = "lockFirst" /\ pc' = [pc EXCEPT ![t] = "publishCurrent"]
      BY <1>8, <2>2 DEF LockFirst
    <3>3. Len(begin') = 1 /\ Chunks' = {1} /\ begin'[1] = 0
      <4>1. FirstCapacity \in Nat \ {0} /\ 0 \in Nat /\ TypeOK
        BY CapacityAssumption DEF ControlInv
      <4> QED BY <3>1, <3>2, <4>1, AllocateChunkFacts
    <3>4. handed = {} /\ \A u \in Threads : pc[u] # "putBack"
      BY <2>2, <3>1 DEF SlotInv, ControlInv, LockInv
    <3>5. \A d : ~Unpublished(d)'
      BY <1>1, <2>2, <3>2 DEF Unpublished, ControlInv, LockInv
    <3>6. \A u \in Threads : pc'[u] # "putBack" /\ (u # t => pc'[u] = pc[u])
      BY <1>1, <3>2, <3>4
    <3> QED BY <1>1, <3>2, <3>3, <3>4, <3>5, <3>6 DEF SlotInv
  <2> QED BY <2>1, <2>2
<1>9. CASE Grow(t)
  <2>1. \/ UNCHANGED <<begin, end, nextChunk, chunk, ptr, handed, currentChunk>>
           /\ pc' = [pc EXCEPT ![t] = "loadCurrent"]
        \/ /\ lock = NoThread /\ currentChunk = Len(begin) /\ currentChunk \in Chunks
           /\ begin[currentChunk] >= end[currentChunk]
           /\ Chunks' = Chunks \cup {Len(begin) + 1}
           /\ \A d \in Chunks : begin'[d] = begin[d] /\ end'[d] = end[d]
           /\ begin'[Len(begin) + 1] = 1
           /\ chunk' = [chunk EXCEPT ![t] = Len(begin) + 1]
           /\ ptr' = [ptr EXCEPT ![t] = 0]
           /\ pc' = [pc EXCEPT ![t] = "publishGrown"]
           /\ UNCHANGED <<handed, currentChunk>>
    BY <1>9, GrowKeepsControl
  <2>2. CASE /\ UNCHANGED <<begin, end, nextChunk, chunk, ptr, handed, currentChunk>>
             /\ pc' = [pc EXCEPT ![t] = "loadCurrent"]
    <3>1. Chunks' = Chunks /\ pc[t] = "grow"
      BY <1>9, <2>2 DEF Chunks, Grow
    <3>2. \A d : Unpublished(d)' <=> Unpublished(d)
      BY <2>2, <3>1, UnpublishedKept DEF Labels
    <3>3. \A u \in Threads : pc'[u] = "putBack" => pc[u] = "putBack"
      BY <1>1, <2>2
    <3> QED BY <1>1, <2>2, <3>1, <3>2, <3>3 DEF SlotInv
  <2>3. CASE /\ lock = NoThread /\ currentChunk = Len(begin) /\ currentChunk \in Chunks
             /\ begin[currentChunk] >= end[currentChunk]
             /\ Chunks' = Chunks \cup {Len(begin) + 1}
             /\ \A d \in Chunks : begin'[d] = begin[d] /\ end'[d] = end[d]
             /\ begin'[Len(begin) + 1] = 1
             /\ chunk' = [chunk EXCEPT ![t] = Len(begin) + 1]
             /\ ptr' = [ptr EXCEPT ![t] = 0]
             /\ pc' = [pc EXCEPT ![t] = "publishGrown"]
             /\ UNCHANGED <<handed, currentChunk>>
    <3>0. PICK n : n = Len(begin) + 1
      OBVIOUS
    <3>1. Unpublished(n)' /\ \A d : Unpublished(d)' => d = n
      <4>1. \A u \in Threads : pc[u] # "publishGrown"
        BY <2>3, NoThreadAssumption DEF ControlInv, LockInv, Holding
      <4>2. \A u \in Threads : pc'[u] = "publishGrown" <=> u = t
        BY <1>1, <2>3, <4>1
      <4>3. chunk'[t] = n
        <5>1. chunk \in [Threads -> Nat] /\ chunk' = [chunk EXCEPT ![t] = n]
          BY <1>1, <2>3, <3>0
        <5> QED BY <5>1
      <4> QED BY <4>2, <4>3 DEF Unpublished
    <3>2. \A d \in Chunks : ~Unpublished(d) /\ d # n
      BY <1>2, <1>3, <2>3, <3>0
    <3>3. Len(begin') = n
      <4>1. Chunks' = 1 .. Len(begin') /\ Len(begin') \in Nat
        BY DEF Chunks, ControlInv, TypeOK
      <4>2. Chunks' = 1 .. n
        <5>1. Chunks' = 1 .. Len(begin) \cup {Len(begin) + 1}
          BY <2>3 DEF Chunks
        <5> QED BY <1>1, <3>0, <5>1
      <4>3. n \in 1 .. Len(begin') /\ (Len(begin') >= 1 => Len(begin') \in 1 .. n)
        BY <1>1, <3>0, <4>1, <4>2
      <4> QED BY <1>1, <3>0, <4>1, <4>3
    <3>4. \A d \in Chunks' : /\ d < Len(begin') => begin'[d] >= end'[d]
                             /\ Unpublished(d)' => begin'[d] = 1
      BY <1>2, <2>3, <3>0, <3>1, <3>3 DEF SlotInv
    <3>5. \A u \in Threads : pc'[u] = "putBack" => ptr'[u] >= end'[chunk'[u]]
      <4> SUFFICES ASSUME NEW u \in Threads, pc'[u] = "putBack"
                   PROVE  ptr'[u] >= end'[chunk'[u]]
        OBVIOUS
      <4>1. u # t /\ pc[u] = "putBack" /\ ptr'[u] = ptr[u] /\ chunk'[u] = chunk[u]
        BY <1>1, <2>3
      <4>2. chunk[u] \in Chunks
        BY <2>3, <4>1 DEF ControlInv, LockInv, Chunks
      <4> QED BY <2>3, <4>1, <4>2 DEF SlotInv
    <3>6. \A h \in handed' : h[1] \in Chunks' /\ h[2] < begin'[h[1]] /\ h[2] < end'[h[1]]
                             /\ ~Unpublished(h[1])'
      BY <2>3, <3>0, <3>1, <3>2 DEF SlotInv
    <3>7. \A d \in Chunks' : \A s \in 0 .. end'[d] - 1 :
            s < begin'[d] /\ ~Unpublished(d)' => <<d, s>> \in handed'
      BY <2>3, <3>0, <3>1, <3>2 DEF SlotInv
    <3>8. SlotInv'
      BY <3>4, <3>5, <3>6, <3>7 DEF SlotInv
    <3> QED BY <1>1, <2>3, <3>8
  <2> QED BY <2>1, <2>2, <2>3
<1> QED
  BY <1>4, <1>5, <1>6, <1>7, <1>8, <1>9 DEF Allocate

\* SlotsUnique: no slot is ever handed out twice, for any number of threads,
\* allocations and any capacity of the first chunk, even where the weak exchange fails.
THEOREM SlotsAreUnique == Spec => SlotsUnique
<1> DEFINE Inv == ControlInv /\ SlotInv
<1>1. Init => Inv
  BY InitControl, InitSlots
<1>2. Inv /\ [Next]_vars => Inv' /\ [\A t \in Threads : pc[t] # "idle" /\ pc'[t] = "idle"
                                       => <<chunk'[t], ptr'[t]>> \notin handed]_vars
  <2> SUFFICES ASSUME Inv, [Next]_vars
               PROVE  /\ SlotInv'
                      /\ \A t \in Threads : pc[t] # "idle" /\ pc'[t] = "idle"
                           => <<chunk'[t], ptr'[t]>> \notin handed
    BY NextControl
  <2>0. ControlInv'
    BY NextControl
  <2>1. ASSUME NEW t \in Threads, CheckFirst(t) \/ Allocate(t)
        PROVE  /\ SlotInv'
               /\ \A u \in Threads : pc[u] # "idle" /\ pc'[u] = "idle"
                    => <<chunk'[u], ptr'[u]>> \notin handed
    BY <2>0, <2>1, AllocateKeepsSlots
  <2>2. CASE StartWalk("iterate") \/ StartWalk("free") \/ Walk
    <3>1. UNCHANGED <<firstChunk, currentChunk, begin, end, nextChunk, lock,
                      pc, chunk, ptr, calls, handed>>
      BY <2>2, WalkKeepsControl
    <3> QED BY <3>1 DEF SlotInv, Chunks, Unpublished
  <2>3. CASE UNCHANGED vars
    BY <2>3 DEF vars, headerVars, threadVars, SlotInv, Chunks, Unpublished
  <2> QED BY <2>1, <2>2, <2>3 DEF Next
<1> QED BY <1>1, <1>2, PTL DEF Spec, SlotsUnique

-----------------------------------------------------------------------------
\* Where no step of a thread turns up at "putBack" or leaves it, the overshoot stays
\* somebody's business.
LEMMA OvershootKept ==
  ASSUME ControlInv, OvershootInv, NEW t \in Threads,
         \A c \in Chunks : begin'[c] = begin[c] /\ end'[c] = end[c],
         Chunks' = Chunks \cup {Len(begin) + 1} => begin'[Len(begin) + 1] <= 1,
         Chunks' = Chunks \/ Chunks' = Chunks \cup {Len(begin) + 1},
         end' \in Seq(Nat \ {0}), begin' \in Seq(Nat), Len(end') = Len(begin'),
         \A u \in Threads : pc[u] = "putBack" =>
           pc'[u] = "putBack" /\ chunk'[u] = chunk[u] /\ ptr'[u] = ptr[u]
  PROVE  OvershootInv'
<1> SUFFICES ASSUME NEW c \in Chunks', begin'[c] > end'[c]
             PROVE  \E u \in Threads :
                      pc'[u] = "putBack" /\ chunk'[u] = c /\ ptr'[u] + 1 = begin'[c]
  BY DEF OvershootInv
<1>1. begin'[c] \in Nat /\ end'[c] \in Nat \ {0}
  BY DEF Chunks
<1>2. c \in Chunks
  BY <1>1
<1>3. PICK u \in Threads : pc[u] = "putBack" /\ chunk[u] = c /\ ptr[u] + 1 = begin[c]
  BY <1>2 DEF OvershootInv
<1> QED BY <1>2, <1>3

LEMMA AllocateKeepsOvershoot ==
  ASSUME ControlInv, ControlInv', SlotInv, OvershootInv, WeakMayFail = FALSE,
         NEW t \in Threads, CheckFirst(t) \/ Allocate(t)
  PROVE  OvershootInv'
<1> USE DEF Goto
<1>0. Len(begin) \in Nat
  BY DEF ControlInv, TypeOK
<1>1. pc \in [Threads -> Labels] /\ chunk \in [Threads -> Nat] /\ ptr \in [Threads -> Nat]
  BY DEF ControlInv, TypeOK
<1>2. \A c \in Chunks : begin[c] \in Nat /\ end[c] \in Nat \ {0} /\ c \in Nat /\ c <= Len(begin)
  BY HeaderTypes DEF ControlInv
<1>3. end' \in Seq(Nat \ {0}) /\ begin' \in Seq(Nat) /\ Len(end') = Len(begin')
  BY DEF ControlInv, TypeOK
<1>4. CASE \/ CheckFirst(t) \/ PublishCurrent(t) \/ PublishFirst(t) \/ LoadCurrent(t)
           \/ PublishGrown(t)
  <2>1. UNCHANGED <<begin, end, ptr>> /\ Chunks' = Chunks
    BY <1>4 DEF CheckFirst, PublishCurrent, PublishFirst, LoadCurrent, PublishGrown,
                headerVars, Chunks
  <2>2. \A u \in Threads : pc[u] = "putBack" => pc'[u] = "putBack" /\ chunk'[u] = chunk[u]
    BY <1>1, <1>4 DEF CheckFirst, PublishCurrent, PublishFirst, LoadCurrent, PublishGrown
  <2> QED BY <2>1, <2>2 DEF OvershootInv
<1>5. CASE LockFirst(t)
  <2>1. CASE firstChunk # 0
    <3>1. UNCHANGED <<begin, end, ptr, chunk>> /\ Chunks' = Chunks
          /\ pc[t] = "lockFirst" /\ pc' = [pc EXCEPT ![t] = "loadCurrent"]
      BY <1>5, <2>1 DEF LockFirst, headerVars, Chunks
    <3>2. \A u \in Threads : pc[u] = "putBack" => pc'[u] = "putBack"
      BY <1>1, <3>1
    <3> QED BY <3>1, <3>2 DEF OvershootInv
  <2>2. CASE firstChunk = 0
    <3>1. Len(begin) = 0 /\ AllocateChunk(FirstCapacity, 0)
      BY <1>5, <2>2 DEF LockFirst, ControlInv, LockInv
    <3>2. Chunks' = {1} /\ begin'[1] = 0
      <4>1. FirstCapacity \in Nat \ {0} /\ 0 \in Nat /\ TypeOK /\ Chunks = {}
        BY <3>1, CapacityAssumption DEF ControlInv, Chunks
      <4> QED BY <3>1, <4>1, AllocateChunkFacts
    <3>3. end'[1] \in Nat
      BY <1>3, <3>2 DEF Chunks
    <3> QED BY <3>2, <3>3 DEF OvershootInv
  <2> QED BY <2>1, <2>2
<1>6. CASE Grow(t)
  <2>1. \/ UNCHANGED <<begin, end, nextChunk, chunk, ptr, handed, currentChunk>>
           /\ pc' = [pc EXCEPT ![t] = "loadCurrent"]
        \/ /\ lock = NoThread /\ currentChunk = Len(begin) /\ currentChunk \in Chunks
           /\ begin[currentChunk] >= end[currentChunk]
           /\ Chunks' = Chunks \cup {Len(begin) + 1}
           /\ \A d \in Chunks : begin'[d] = begin[d] /\ end'[d] = end[d]
           /\ begin'[Len(begin) + 1] = 1
           /\ chunk' = [chunk EXCEPT ![t] = Len(begin) + 1]
           /\ ptr' = [ptr EXCEPT ![t] = 0]
           /\ pc' = [pc EXCEPT ![t] = "publishGrown"]
           /\ UNCHANGED <<handed, currentChunk>>
    BY <1>6, GrowKeepsControl
  <2>2. pc[t] = "grow"
    BY <1>6 DEF Grow
  <2>3. CASE /\ UNCHANGED <<begin, end, nextChunk, chunk, ptr, handed, currentChunk>>
             /\ pc' = [pc EXCEPT ![t] = "loadCurrent"]
    <3>1. \A u \in Threads : pc[u] = "putBack" => pc'[u] = "putBack"
      BY <1>1, <2>2, <2>3
    <3> QED BY <2>3, <3>1 DEF OvershootInv, Chunks
  <2>4. CASE /\ Chunks' = Chunks \cup {Len(begin) + 1}
             /\ \A d \in Chunks : begin'[d] = begin[d] /\ end'[d] = end[d]
             /\ begin'[Len(begin) + 1] = 1
             /\ chunk' = [chunk EXCEPT ![t] = Len(begin) + 1]
             /\ ptr' = [ptr EXCEPT ![t] = 0]
             /\ pc' = [pc EXCEPT ![t] = "publishGrown"]
    <3>1. \A u \in Threads : pc[u] = "putBack" =>
            pc'[u] = "putBack" /\ chunk'[u] = chunk[u] /\ ptr'[u] = ptr[u]
      BY <1>1, <2>2, <2>4
    <3> QED BY <1>3, <2>4, <3>1, OvershootKept
  <2> QED BY <2>1, <2>3, <2>4
<1>7. CASE FetchAdd(t)
  <2> DEFINE c == chunk[t]
  <2>1. /\ Chunks' = Chunks /\ c \in Chunks
        /\ \A d \in Chunks : begin'[d] = IF d = c THEN begin[d] + 1 ELSE begin[d]
    BY <1>7, BeginKeepsControl
  <2>2. UNCHANGED <<chunk, end>> /\ ptr' = [ptr EXCEPT ![t] = begin[c]]
        /\ pc[t] = "fetchAdd"
    BY <1>7 DEF FetchAdd
  <2>3. \A u \in Threads : u # t => pc'[u] = pc[u] /\ ptr'[u] = ptr[u]
    BY <1>1, <1>7, <2>2 DEF FetchAdd
  <2> SUFFICES ASSUME NEW d \in Chunks, begin'[d] > end[d]
               PROVE  \E u \in Threads :
                        pc'[u] = "putBack" /\ chunk[u] = d /\ ptr'[u] + 1 = begin'[d]
    BY <2>1, <2>2 DEF OvershootInv
  <2>4. CASE d = c
    <3>1. ~(begin[c] < end[c]) /\ begin'[d] = begin[c] + 1
      BY <1>2, <2>1, <2>4
    <3>2. pc'[t] = "putBack"
      BY <1>1, <1>7, <3>1 DEF FetchAdd
    <3>3. ptr'[t] = begin[c]
      BY <1>1, <2>2
    <3> QED BY <2>4, <3>1, <3>2, <3>3
  <2>5. CASE d # c
    <3>1. begin'[d] = begin[d]
      BY <2>1, <2>5
    <3>2. PICK u \in Threads : pc[u] = "putBack" /\ chunk[u] = d /\ ptr[u] + 1 = begin[d]
      BY <3>1 DEF OvershootInv
    <3> QED BY <2>2, <2>3, <3>1, <3>2
  <2> QED BY <2>4, <2>5
<1>8. CASE PutBack(t)
  <2> DEFINE c == chunk[t]
  <2>1. /\ Chunks' = Chunks /\ c \in Chunks
        /\ \/ begin' = begin
           \/ /\ begin[c] = ptr[t] + 1
              /\ \A d \in Chunks : begin'[d] = IF d = c THEN end[d] ELSE begin[d]
    BY <1>8, BeginKeepsControl
  <2>2. UNCHANGED <<chunk, end, ptr>> /\ pc[t] = "putBack" /\ ptr[t] \in Nat
        /\ (begin' = begin => begin[c] # ptr[t] + 1 \/ begin[c] = end[c])
    <3>1. begin[c] = ptr[t] + 1 =>
            begin' = [begin EXCEPT ![c] = end[c]]
      BY <1>8, WeakAssumption DEF PutBack
    <3>2. begin[c] = ptr[t] + 1 => begin'[c] = end[c]
      <4>1. begin \in Seq(Nat) /\ c \in 1 .. Len(begin) /\ end[c] \in Nat
        BY <1>2, <2>1 DEF ControlInv, TypeOK, Chunks
      <4> QED BY <3>1, <4>1
    <3> QED BY <1>1, <1>8, <3>2 DEF PutBack
  <2>3. \A u \in Threads : u # t => pc'[u] = pc[u]
    BY <1>1, <1>8 DEF PutBack
  <2> SUFFICES ASSUME NEW d \in Chunks, begin'[d] > end[d]
               PROVE  \E u \in Threads :
                        pc'[u] = "putBack" /\ chunk[u] = d /\ ptr[u] + 1 = begin'[d]
    BY <2>1, <2>2 DEF OvershootInv
  <2>4. begin'[d] = begin[d]
    BY <1>2, <2>1
  <2>5. PICK u \in Threads : pc[u] = "putBack" /\ chunk[u] = d /\ ptr[u] + 1 = begin[d]
    BY <2>4 DEF OvershootInv
  <2>6. u # t
    BY <1>2, <2>1, <2>2, <2>4, <2>5
  <2> QED BY <2>3, <2>4, <2>5, <2>6
<1> QED
  BY <1>4, <1>5, <1>6, <1>7, <1>8 DEF Allocate

\* BeginExact: where compare_exchange_weak does not fail spuriously, the slots below
\* begin are exactly those that were handed out whenever no thread allocates.
THEOREM BeginIsExact ==
  ASSUME WeakMayFail = FALSE
  PROVE  Spec => []BeginExact
<1> DEFINE Inv == ControlInv /\ SlotInv /\ OvershootInv
<1>1. Init => Inv
  BY InitControl, InitSlots DEF Init, OvershootInv, Chunks
<1>2. Inv /\ [Next]_vars => Inv'
  <2> SUFFICES ASSUME Inv, [Next]_vars PROVE SlotInv' /\ OvershootInv'
    BY NextControl
  <2>0. ControlInv'
    BY NextControl
  <2>1. ASSUME NEW t \in Threads, CheckFirst(t) \/ Allocate(t)
        PROVE  SlotInv' /\ OvershootInv'
    BY <2>0, <2>1, AllocateKeepsSlots, AllocateKeepsOvershoot
  <2>2. CASE StartWalk("iterate") \/ StartWalk("free") \/ Walk
    <3>1. UNCHANGED <<firstChunk, currentChunk, begin, end, nextChunk, lock,
                      pc, chunk, ptr, calls, handed>>
      BY <2>2, WalkKeepsControl
    <3> QED BY <3>1 DEF SlotInv, OvershootInv, Chunks, Unpublished
  <2>3. CASE UNCHANGED vars
    BY <2>3 DEF vars, headerVars, threadVars, SlotInv, OvershootInv, Chunks, Unpublished
  <2> QED BY <2>1, <2>2, <2>3 DEF Next
<1>3. Inv => BeginExact
  <2> SUFFICES ASSUME Inv, Quiescent, NEW c \in Chunks
               PROVE  SlotsHanded(c) = 0 .. begin[c] - 1
    BY DEF BeginExact
  <2>1. begin[c] \in Nat /\ end[c] \in Nat \ {0}
    BY HeaderTypes DEF ControlInv
  <2>2. begin[c] <= end[c] /\ ~Unpublished(c)
    BY <2>1 DEF Quiescent, OvershootInv, Unpublished
  <2>3. \A s \in 0 .. begin[c] - 1 : <<c, s>> \in handed
    BY <2>1, <2>2 DEF SlotInv
  <2>4. \A h \in handed : h[1] = c => h[2] \in 0 .. begin[c] - 1
    <3> SUFFICES ASSUME NEW h \in handed, h[1] = c PROVE h[2] \in 0 .. begin[c] - 1
      OBVIOUS
    <3>1. h[2] \in Nat
      BY DEF ControlInv, TypeOK
    <3>2. h[2] < begin[c]
      BY DEF SlotInv
    <3> QED BY <2>1, <3>1, <3>2
  <2>5. ASSUME NEW s \in 0 .. begin[c] - 1 PROVE s \in SlotsHanded(c)
    <3>1. <<c, s>> \in {g \in handed : g[1] = c} /\ <<c, s>>[2] = s
      BY <2>3
    <3> QED BY <3>1 DEF SlotsHanded
  <2> QED BY <2>4, <2>5 DEF SlotsHanded
<1> QED BY <1>1, <1>2, <1>3, PTL DEF Spec

-----------------------------------------------------------------------------
\* A new chunk is empty until the thread that brought it, or another one, takes its
\* first slot.
LEMMA AllocateKeepsNonEmpty ==
  ASSUME ControlInv, ControlInv', SlotInv, NonEmptyInv,
         NEW t \in Threads, CheckFirst(t) \/ Allocate(t)
  PROVE  NonEmptyInv'
<1> USE DEF Goto
<1>0. Len(begin) \in Nat
  BY DEF ControlInv, TypeOK
<1>1. pc \in [Threads -> Labels] /\ chunk \in [Threads -> Nat] /\ Len(begin) \in Nat
  BY <1>0 DEF ControlInv, TypeOK
<1>2. \A c \in Chunks : begin[c] \in Nat /\ end[c] \in Nat \ {0} /\ c \in Nat /\ c <= Len(begin)
  BY HeaderTypes DEF ControlInv
<1>3. CASE CheckFirst(t)
  <2>1. UNCHANGED <<begin, chunk, currentChunk>> /\ Chunks' = Chunks /\ pc[t] = "idle"
    BY <1>3 DEF CheckFirst, headerVars, Chunks
  <2>2. \A u \in Threads : u # t => pc'[u] = pc[u]
    BY <1>1, <1>3 DEF CheckFirst
  <2> QED BY <2>1, <2>2 DEF NonEmptyInv
<1>4. CASE LockFirst(t)
  <2>1. UNCHANGED <<chunk, currentChunk>> /\ pc[t] = "lockFirst"
    BY <1>4 DEF LockFirst
  <2>2. \A u \in Threads : u # t => pc'[u] = pc[u]
    BY <1>1, <1>4 DEF LockFirst
  <2>3. CASE firstChunk # 0
    <3>1. begin' = begin /\ Chunks' = Chunks
      BY <1>4, <2>3 DEF LockFirst, headerVars, Chunks
    <3> QED BY <2>1, <2>2, <3>1 DEF NonEmptyInv
  <2>4. CASE firstChunk = 0
    <3>1. pc'[t] = "publishCurrent"
      BY <1>1, <1>4, <2>4 DEF LockFirst
    <3> QED BY <3>1 DEF NonEmptyInv
  <2> QED BY <2>3, <2>4
<1>5. CASE PublishCurrent(t)
  <2>1. pc'[t] = "publishFirst"
    BY <1>1, <1>5 DEF PublishCurrent
  <2> QED BY <2>1 DEF NonEmptyInv
<1>6. CASE PublishFirst(t)
  <2>1. pc'[t] = "loadCurrent" /\ currentChunk' = 1 /\ Chunks' = 1 .. 1
    BY <1>1, <1>6 DEF PublishFirst, headerVars, ControlInv, LockInv, Chunks
  <2> QED BY <2>1 DEF NonEmptyInv
<1>7. CASE LoadCurrent(t)
  <2>1. UNCHANGED <<begin, currentChunk>> /\ Chunks' = Chunks /\ pc[t] = "loadCurrent"
    BY <1>7 DEF LoadCurrent, headerVars, Chunks
  <2>2. /\ \A u \in Threads : u # t => pc'[u] = pc[u] /\ chunk'[u] = chunk[u]
        /\ pc'[t] = "fetchAdd" /\ chunk'[t] = currentChunk
    BY <1>1, <1>7 DEF LoadCurrent
  <2> SUFFICES ASSUME NEW c \in Chunks, begin[c] = 0
               PROVE  \E u \in Threads :
                        \/ pc'[u] \in {"publishCurrent", "publishFirst"}
                        \/ pc'[u] = "loadCurrent" /\ currentChunk' = c
                        \/ pc'[u] = "fetchAdd" /\ chunk'[u] = c
    BY <2>1 DEF NonEmptyInv
  <2>3. PICK u \in Threads : \/ pc[u] \in {"publishCurrent", "publishFirst"}
                             \/ pc[u] = "loadCurrent" /\ currentChunk = c
                             \/ pc[u] = "fetchAdd" /\ chunk[u] = c
    BY DEF NonEmptyInv
  <2> QED BY <2>1, <2>2, <2>3
<1>8. CASE FetchAdd(t) \/ PutBack(t)
  <2>1. UNCHANGED <<chunk, currentChunk>> /\ pc[t] \in {"fetchAdd", "putBack"}
        /\ (PutBack(t) => pc[t] = "putBack")
    BY <1>8 DEF FetchAdd, PutBack
  <2>2. \A u \in Threads : u # t => pc'[u] = pc[u]
    BY <1>1, <1>8 DEF FetchAdd, PutBack
  <2>3. Chunks' = Chunks /\ chunk[t] \in Chunks
    BY <1>8, BeginKeepsControl
  <2>4. \A d \in Chunks : begin'[d] = 0 => begin[d] = 0 /\ (FetchAdd(t) => d # chunk[t])
    BY <1>2, <1>8, <2>3, BeginKeepsControl
  <2>5. CASE FetchAdd(t)
    BY <2>1, <2>2, <2>3, <2>4, <2>5 DEF NonEmptyInv
  <2>6. CASE PutBack(t)
    BY <2>1, <2>2, <2>3, <2>4, <2>6 DEF NonEmptyInv
  <2> QED BY <1>8, <2>5, <2>6
<1>9. CASE Grow(t)
  <2>1. \/ UNCHANGED <<begin, end, nextChunk, chunk, ptr, handed, currentChunk>>
           /\ pc' = [pc EXCEPT ![t] = "loadCurrent"]
        \/ /\ Chunks' = Chunks \cup {Len(begin) + 1}
           /\ \A d \in Chunks : begin'[d] = begin[d]
           /\ begin'[Len(begin) + 1] = 1
           /\ chunk' = [chunk EXCEPT ![t] = Len(begin) + 1]
           /\ UNCHANGED currentChunk
    BY <1>9, GrowKeepsControl
  <2>2. pc[t] = "grow" /\ \A u \in Threads : u # t => pc'[u] = pc[u] /\ chunk'[u] = chunk[u]
    BY <1>1, <1>9 DEF Grow
  <2>3. currentChunk' = currentChunk /\ \A d \in Chunks' : begin'[d] = 0 => d \in Chunks /\ begin[d] = 0
    BY <2>1 DEF Chunks
  <2> QED BY <2>2, <2>3 DEF NonEmptyInv
<1>10. CASE PublishGrown(t)
  <2>1. pc[t] = "publishGrown" /\ begin' = begin /\ Chunks' = Chunks
    BY <1>10 DEF PublishGrown, headerVars, Chunks
  <2>2. \A c \in Chunks : begin[c] # 0
    <3> SUFFICES ASSUME NEW c \in Chunks PROVE begin[c] # 0
      OBVIOUS
    <3>1. CASE c < Len(begin)
      BY <1>2, <3>1 DEF SlotInv
    <3>2. CASE c = Len(begin)
      <4>1. Unpublished(c)
        BY <2>1, <3>2 DEF Unpublished, ControlInv, LockInv
      <4> QED BY <4>1 DEF SlotInv
    <3> QED BY <1>1, <1>2, <3>1, <3>2
  <2> QED BY <2>1, <2>2 DEF NonEmptyInv
<1> QED
  BY <1>3, <1>4, <1>5, <1>6, <1>7, <1>8, <1>9, <1>10 DEF Allocate

\* What the owner finds when no thread allocates: every chunk has a slot in use, the
\* slots below begin are those that were handed out, the current chunk is the last.
LEMMA QuiescentPool ==
  ASSUME ControlInv, SlotInv, OvershootInv, NonEmptyInv, Quiescent
  PROVE  /\ Len(begin) = currentChunk /\ Len(begin) \in Nat
         /\ firstChunk = IF Len(begin) = 0 THEN 0 ELSE 1
         /\ \A c \in Chunks : c \in Nat /\ c > 0 /\ begin[c] \in Nat /\ begin[c] > 0
         /\ \A h \in handed : /\ h = <<h[1], h[2]>> /\ h[1] \in Chunks
                              /\ h[2] \in Nat /\ h[2] < begin[h[1]]
         /\ \A c \in Chunks, s \in Nat : s < begin[c] => <<c, s>> \in handed
<1>1. \A c \in Chunks : /\ c \in Nat /\ c <= Len(begin) /\ Len(begin) \in Nat
                        /\ begin[c] \in Nat /\ end[c] \in Nat \ {0}
  BY HeaderTypes DEF ControlInv
<1>2. lock = NoThread
  BY DEF Quiescent, ControlInv, LockInv, TypeOK, Holding
<1>3. Len(begin) = currentChunk /\ Len(begin) \in Nat
  BY <1>2 DEF ControlInv, LockInv, TypeOK
<1>4. firstChunk = IF Len(begin) = 0 THEN 0 ELSE 1
  BY <1>2, <1>3 DEF ControlInv, LockInv
<1>5. \A c \in Chunks : ~Unpublished(c) /\ begin[c] <= end[c] /\ begin[c] # 0
  BY <1>1 DEF Quiescent, Unpublished, OvershootInv, NonEmptyInv
<1>6. \A c \in Chunks : c \in Nat /\ c > 0 /\ begin[c] \in Nat /\ begin[c] > 0
  BY <1>1, <1>5 DEF Chunks
<1>7. \A h \in handed : h = <<h[1], h[2]>> /\ h[2] \in Nat
  BY DEF ControlInv, TypeOK
<1>8. \A h \in handed : h[1] \in Chunks /\ h[2] < begin[h[1]]
  BY DEF SlotInv
<1>9. ASSUME NEW c \in Chunks, NEW s \in Nat, s < begin[c] PROVE <<c, s>> \in handed
  <2>1. s \in 0 .. end[c] - 1
    BY <1>1, <1>5, <1>9
  <2> QED BY <1>5, <1>9, <2>1 DEF SlotInv
<1> QED BY <1>3, <1>4, <1>6, <1>7, <1>8, <1>9

\* The chunk the owner goes on to.
LEMMA NextOfChunk ==
  ASSUME ControlInv, NEW c \in Chunks
  PROVE  IF nextChunk[c] = 0 THEN c = Len(begin)
         ELSE nextChunk[c] = c + 1 /\ c + 1 \in Chunks
<1>1. c \in Nat /\ c <= Len(begin) /\ Len(begin) \in Nat
  BY HeaderTypes DEF ControlInv
<1> QED BY <1>1 DEF ControlInv, LinkInv, Chunks

\* The walk of the owner comes by the slots in the order of the chunks.
LEMMA WalkKeepsWalk ==
  ASSUME ControlInv, SlotInv, OvershootInv, NonEmptyInv, WalkInv,
         StartWalk("iterate") \/ StartWalk("free") \/ Walk
  PROVE  WalkInv'
<1> DEFINE c == cursor.chunk
           s == cursor.slot
<1>1. /\ UNCHANGED <<firstChunk, currentChunk, begin, end, nextChunk, handed>>
      /\ Chunks' = Chunks /\ Quiescent
  BY WalkKeepsControl DEF Chunks
<1>2. /\ Len(begin) = currentChunk /\ Len(begin) \in Nat
      /\ firstChunk = IF Len(begin) = 0 THEN 0 ELSE 1
      /\ \A d \in Chunks : d \in Nat /\ d > 0 /\ begin[d] \in Nat /\ begin[d] > 0
      /\ \A h \in handed : /\ h = <<h[1], h[2]>> /\ h[1] \in Chunks
                           /\ h[2] \in Nat /\ h[2] < begin[h[1]]
      /\ \A d \in Chunks, i \in Nat : i < begin[d] => <<d, i>> \in handed
  BY <1>1, QuiescentPool
<1>3. cursor \in [chunk : Nat, slot : Nat] /\ c \in Nat /\ s \in Nat
      /\ cursor = [chunk |-> c, slot |-> s]
  BY DEF ControlInv, TypeOK
<1>4. ASSUME NEW what \in {"iterate", "free"}, StartWalk(what) PROVE WalkInv'
  <2>1. mode' = what /\ cursor' = [chunk |-> firstChunk, slot |-> 0] /\ walked' = {}
    BY <1>4 DEF StartWalk
  <2>2. CASE Len(begin) = 0
    <3>1. handed = {} /\ cursor'.chunk = 0 /\ mode' \notin {"use", "gone"}
      BY <1>2, <2>1, <2>2 DEF Chunks
    <3> QED BY <1>1, <2>1, <2>2, <3>1 DEF WalkInv
  <2>3. CASE Len(begin) # 0
    <3>1. cursor'.chunk = 1 /\ cursor'.slot = 0 /\ 1 \in Chunks /\ mode' \notin {"use", "gone"}
      BY <1>2, <2>1, <2>3 DEF Chunks
    <3>2. \A h \in handed : ~(h[1] < 1) /\ ~(h[1] = 1 /\ h[2] < 0)
      BY <1>2
    <3>3. 0 <= begin[1] /\ 0 # begin[1]
      BY <1>2, <3>1
    <3> QED BY <1>1, <2>1, <3>1, <3>2, <3>3 DEF WalkInv
  <2> QED BY <2>2, <2>3
\* The slot under the cursor is passed.
<1>5. ASSUME mode \in {"iterate", "free"}, c \in Chunks, s < begin[c],
             walked' = walked \cup {<<c, s>>}
      PROVE  /\ walked' \subseteq handed
             /\ \A h \in handed : h \in walked' <=> \/ h[1] < c
                                                    \/ h[1] = c /\ h[2] < s + 1
  <2>1. <<c, s>> \in handed /\ c # 0
    BY <1>2, <1>3, <1>5
  <2>2. walked \subseteq handed
        /\ \A h \in handed : h \in walked <=> h[1] < c \/ (h[1] = c /\ h[2] < s)
    BY <1>5, <2>1 DEF WalkInv
  <2>3. \A h \in handed : h = <<c, s>> <=> h[1] = c /\ h[2] = s
    BY <1>2
  <2>4. \A h \in handed : h[2] < s + 1 <=> h[2] < s \/ h[2] = s
    BY <1>2, <1>3
  <2> QED BY <1>5, <2>1, <2>2, <2>3, <2>4
\* The next chunk begins with a slot that is not passed yet.
<1>6. ASSUME c \in Chunks, c + 1 \in Chunks,
             cursor' = [chunk |-> c + 1, slot |-> 0], mode' \in {"iterate", "free"},
             walked' \subseteq handed,
             \A h \in handed : h \in walked' <=> h[1] <= c
      PROVE  WalkInv'
  <2>1. cursor'.chunk = c + 1 /\ cursor'.slot = 0 /\ c + 1 # 0
    BY <1>3, <1>6
  <2>2. \A h \in handed : /\ h[1] <= c <=> h[1] < c + 1
                          /\ ~(h[2] < 0)
    BY <1>2, <1>3
  <2>3. 0 <= begin[c + 1] /\ 0 # begin[c + 1]
    BY <1>2, <1>6
  <2> QED BY <1>1, <1>6, <2>1, <2>2, <2>3 DEF WalkInv
<1>7. CASE IterateStep
  <2>1. mode = "iterate" /\ mode' = "iterate" /\ ~AtEnd
        /\ walked' = walked \cup {<<c, s>>} /\ cursor' = Increment
    BY <1>7 DEF IterateStep
  <2>2. c # 0 /\ c \in Chunks /\ s <= begin[c]
    BY <2>1 DEF ControlInv, CursorInv, WalkInv
  <2>3. s < begin[c]
    <3>1. s # begin[c]
      BY <1>2, <1>3, <2>1, <2>2 DEF WalkInv, AtEnd
    <3> QED BY <1>2, <1>3, <2>2, <3>1
  <2>4. /\ walked' \subseteq handed
        /\ \A h \in handed : h \in walked' <=> h[1] < c \/ (h[1] = c /\ h[2] < s + 1)
    BY <1>5, <2>1, <2>2, <2>3
  <2>5. CASE s + 1 = begin[c] /\ nextChunk[c] # 0
    <3>1. nextChunk[c] = c + 1 /\ c + 1 \in Chunks
      BY <2>2, <2>5, NextOfChunk
    <3>2. cursor' = [chunk |-> c + 1, slot |-> 0]
      BY <2>1, <2>5, <3>1 DEF Increment
    <3>3. \A h \in handed : h \in walked' <=> h[1] <= c
      <4>1. \A h \in handed : h[1] = c => h[2] < s + 1
        BY <1>2, <2>5
      <4>2. \A h \in handed : h[1] <= c <=> h[1] < c \/ h[1] = c
        BY <1>2, <1>3
      <4> QED BY <2>4, <4>1, <4>2
    <3> QED BY <1>6, <2>1, <2>2, <2>4, <3>1, <3>2, <3>3
  <2>6. CASE ~(s + 1 = begin[c] /\ nextChunk[c] # 0)
    <3>1. cursor'.chunk = c /\ cursor'.slot = s + 1
      BY <2>1, <2>6 DEF Increment
    <3>2. s + 1 <= begin[c]
      BY <1>2, <1>3, <2>2, <2>3
    <3>3. s + 1 = begin[c] => c = currentChunk
      BY <1>2, <2>2, <2>6, NextOfChunk
    <3> QED BY <1>1, <2>1, <2>2, <2>4, <3>1, <3>2, <3>3 DEF WalkInv
  <2> QED BY <2>5, <2>6
<1>8. CASE IterateEnd
  <2>1. mode = "iterate" /\ mode' = "use" /\ walked' = walked
    BY <1>8 DEF IterateEnd
  <2>2. walked \subseteq handed
    BY <2>1 DEF WalkInv
  <2> QED BY <1>1, <2>1, <2>2 DEF WalkInv
<1>9. CASE FreeStep
  <2>1. mode = "free" /\ mode' = "free" /\ c # 0
    BY <1>9 DEF FreeStep
  <2>2. c \in Chunks /\ s <= begin[c] /\ walked \subseteq handed
        /\ \A h \in handed : h \in walked <=> h[1] < c \/ (h[1] = c /\ h[2] < s)
    BY <2>1 DEF WalkInv
  <2>3. CASE s # begin[c]
    <3>1. walked' = walked \cup {<<c, s>>} /\ cursor'.chunk = c /\ cursor'.slot = s + 1
      BY <1>9, <2>3 DEF FreeStep
    <3>2. s < begin[c] /\ s + 1 <= begin[c]
      BY <1>2, <1>3, <2>2, <2>3
    <3>3. /\ walked' \subseteq handed
          /\ \A h \in handed : h \in walked' <=> h[1] < c \/ (h[1] = c /\ h[2] < s + 1)
      BY <1>5, <2>1, <2>2, <3>1, <3>2
    <3> QED BY <1>1, <2>1, <2>2, <3>1, <3>2, <3>3 DEF WalkInv
  <2>4. CASE s = begin[c]
    <3>1. walked' = walked /\ cursor' = [chunk |-> nextChunk[c], slot |-> 0]
      BY <1>9, <2>4 DEF FreeStep
    <3>2. \A h \in handed : h \in walked <=> h[1] <= c
      <4>1. \A h \in handed : h[1] = c => h[2] < s
        BY <1>2, <2>4
      <4>2. \A h \in handed : h[1] <= c <=> h[1] < c \/ h[1] = c
        BY <1>2, <1>3
      <4> QED BY <2>2, <4>1, <4>2
    <3>3. CASE nextChunk[c] = 0
      <4>1. c = Len(begin) /\ \A h \in handed : h[1] <= c
        BY <1>2, <2>2, <3>3, NextOfChunk DEF Chunks
      <4>2. walked = handed
        BY <2>2, <3>2, <4>1
      <4>3. cursor'.chunk = 0
        BY <3>1, <3>3
      <4> QED BY <1>1, <2>1, <3>1, <4>2, <4>3 DEF WalkInv
    <3>4. CASE nextChunk[c] # 0
      <4>1. nextChunk[c] = c + 1 /\ c + 1 \in Chunks
        BY <2>2, <3>4, NextOfChunk
      <4> QED BY <1>6, <2>1, <2>2, <3>1, <3>2, <4>1
    <3> QED BY <3>3, <3>4
  <2> QED BY <2>3, <2>4
<1>10. CASE FreeEnd
  <2>1. mode = "free" /\ mode' = "gone" /\ c = 0 /\ UNCHANGED <<cursor, walked>>
    BY <1>10 DEF FreeEnd
  <2>2. walked = handed
    BY <2>1 DEF WalkInv
  <2> QED BY <1>1, <2>1, <2>2 DEF WalkInv
<1> QED
  BY <1>4, <1>7, <1>8, <1>9, <1>10 DEF Walk

\* While threads allocate nobody walks.
LEMMA AllocateKeepsWalk ==
  ASSUME ControlInv, ControlInv', WalkInv, NEW t \in Threads, CheckFirst(t) \/ Allocate(t)
  PROVE  WalkInv'
<1>1. mode = "use"
  BY DEF CheckFirst, Allocate, LockFirst, PublishCurrent, PublishFirst, LoadCurrent, FetchAdd,
         PutBack, Grow, PublishGrown, ControlInv, CursorInv, Quiescent
<1>2. UNCHANGED <<mode, walked>>
  BY DEF CheckFirst, Allocate, LockFirst, PublishCurrent, PublishFirst, LoadCurrent, FetchAdd,
         PutBack, Grow, PublishGrown, walkVars
<1>3. handed \subseteq handed'
  BY DEF CheckFirst, Allocate, LockFirst, PublishCurrent, PublishFirst, LoadCurrent, FetchAdd,
         PutBack, Grow, PublishGrown
<1> QED BY <1>1, <1>2, <1>3 DEF WalkInv

\* WalkExact: the iterator visits and the destructor destroys exactly the slots that
\* were handed out, for any number of threads, allocations and any first capacity.
THEOREM WalkIsExact ==
  ASSUME WeakMayFail = FALSE
  PROVE  Spec => []WalkExact
<1> DEFINE Inv == ControlInv /\ SlotInv /\ OvershootInv /\ NonEmptyInv /\ WalkInv
<1>1. Init => Inv
  BY InitControl, InitSlots DEF Init, OvershootInv, NonEmptyInv, WalkInv, Chunks
<1>2. Inv /\ [Next]_vars => Inv'
  <2> SUFFICES ASSUME Inv, [Next]_vars
               PROVE  SlotInv' /\ OvershootInv' /\ NonEmptyInv' /\ WalkInv'
    BY NextControl
  <2>0. ControlInv'
    BY NextControl
  <2>1. ASSUME NEW t \in Threads, CheckFirst(t) \/ Allocate(t)
        PROVE  SlotInv' /\ OvershootInv' /\ NonEmptyInv' /\ WalkInv'
    BY <2>0, <2>1, AllocateKeepsSlots, AllocateKeepsOvershoot, AllocateKeepsNonEmpty,
       AllocateKeepsWalk
  <2>2. CASE StartWalk("iterate") \/ StartWalk("free") \/ Walk
    <3>1. UNCHANGED <<firstChunk, currentChunk, begin, end, nextChunk, lock,
                      pc, chunk, ptr, calls, handed>>
      BY <2>2, WalkKeepsControl
    <3>2. WalkInv'
      BY <2>2, WalkKeepsWalk
    <3> QED BY <3>1, <3>2 DEF SlotInv, OvershootInv, NonEmptyInv, Chunks, Unpublished
  <2>3. CASE UNCHANGED vars
    BY <2>3 DEF vars, headerVars, threadVars, walkVars, SlotInv, OvershootInv, NonEmptyInv,
                WalkInv, Chunks, Unpublished
  <2> QED BY <2>1, <2>2, <2>3 DEF Next
<1>3. Inv => WalkExact
  <2> SUFFICES ASSUME Inv PROVE WalkExact
    OBVIOUS
  <2>1. walked \subseteq handed /\ (mode = "gone" => walked = handed)
    BY DEF WalkInv, ControlInv, TypeOK
  <2>2. ASSUME mode = "iterate", AtEnd PROVE walked = handed
    <3>1. Quiescent
      BY <2>2 DEF ControlInv, CursorInv
    <3>2. /\ Len(begin) = currentChunk /\ Len(begin) \in Nat
          /\ \A h \in handed : h[1] \in Chunks /\ h[2] < begin[h[1]]
      BY <3>1, QuiescentPool
    <3>3. cursor.chunk = currentChunk
          /\ cursor.slot = IF currentChunk = 0 THEN 0 ELSE begin[currentChunk]
      BY <2>2 DEF AtEnd
    <3>4. CASE currentChunk = 0
      <4>1. handed = {}
        BY <3>2, <3>4 DEF Chunks
      <4> QED BY <2>1, <4>1
    <3>5. CASE currentChunk # 0
      <4>1. \A h \in handed : h[1] < currentChunk
                              \/ (h[1] = currentChunk /\ h[2] < begin[currentChunk])
        BY <3>2 DEF Chunks
      <4> QED BY <2>1, <2>2, <3>3, <3>5, <4>1 DEF WalkInv
    <3> QED BY <3>4, <3>5
  <2> QED BY <2>1, <2>2 DEF WalkExact
<1> QED BY <1>1, <1>2, <1>3, PTL DEF Spec

-----------------------------------------------------------------------------
(* Chains of footers in a memory h, of heads from which they start.        *)

Linked(h) == 0 \notin DOMAIN h /\ \A f \in DOMAIN h : h[f].prev \in DOMAIN h \cup {0}
Closed(h, f, S) == f \in S \cup {0} /\ \A y \in S : h[y].prev \in S \cup {0}
ChainIn(h, f) == {x \in DOMAIN h : \A S \in SUBSET DOMAIN h : Closed(h, f, S) => x \in S}

\* ChainFrom is about the memory as it is.
LEMMA ChainFromIs == \A f : ChainFrom(f) = ChainIn(header, f)
  BY DEF ChainFrom, ChainIn, Closed

\* A chain is closed.
LEMMA ChainClosed ==
  ASSUME NEW h, Linked(h), NEW f \in DOMAIN h \cup {0}
  PROVE  Closed(h, f, ChainIn(h, f)) /\ ChainIn(h, f) \subseteq DOMAIN h
  BY DEF Linked, Closed, ChainIn

\* No closed set is smaller.
LEMMA ChainLeast ==
  ASSUME NEW h, NEW f, NEW S \in SUBSET DOMAIN h, Closed(h, f, S)
  PROVE  ChainIn(h, f) \subseteq S
  BY DEF ChainIn

\* Nothing is before the first footer.
LEMMA ChainNone == ASSUME NEW h PROVE ChainIn(h, 0) = {}
  <1>1. Closed(h, 0, {})
    BY DEF Closed
  <1> QED
    BY <1>1, ChainLeast

\* A chain is its first footer and the chain of the previous one.
LEMMA ChainStep ==
  ASSUME NEW h, Linked(h), NEW f \in DOMAIN h
  PROVE  ChainIn(h, f) = {f} \cup ChainIn(h, h[f].prev)
  <1> DEFINE C == ChainIn(h, f)
             D == ChainIn(h, h[f].prev)
  <1>1. Closed(h, f, C) /\ C \subseteq DOMAIN h
    BY ChainClosed
  <1>2. h[f].prev \in DOMAIN h \cup {0} /\ f # 0
    BY DEF Linked
  <1>3. Closed(h, h[f].prev, D) /\ D \subseteq DOMAIN h
    BY <1>2, ChainClosed
  <1>4. Closed(h, f, {f} \cup D)
    BY <1>3 DEF Closed
  <1>5. C \subseteq {f} \cup D
    BY <1>3, <1>4, ChainLeast
  <1>6. f \in C /\ Closed(h, h[f].prev, C)
    BY <1>1, <1>2 DEF Closed
  <1>7. D \subseteq C
    BY <1>1, <1>6, ChainLeast
  <1> QED
    BY <1>5, <1>6, <1>7

\* The chain of a member is a part of the chain.
LEMMA ChainWithin ==
  ASSUME NEW h, Linked(h), NEW f \in DOMAIN h \cup {0}, NEW x \in ChainIn(h, f)
  PROVE  ChainIn(h, x) \subseteq ChainIn(h, f) /\ ChainIn(h, h[x].prev) \subseteq ChainIn(h, f)
  <1>1. Closed(h, f, ChainIn(h, f)) /\ ChainIn(h, f) \subseteq DOMAIN h
    BY ChainClosed
  <1>2. Closed(h, x, ChainIn(h, f)) /\ Closed(h, h[x].prev, ChainIn(h, f))
    BY <1>1 DEF Closed
  <1> QED
    BY <1>1, <1>2, ChainLeast

\* What is stored elsewhere does not matter.
LEMMA ChainSame ==
  ASSUME NEW h, NEW g, Linked(h), Linked(g), NEW f \in DOMAIN h \cup {0},
         f \in DOMAIN g \cup {0},
         ChainIn(h, f) \subseteq DOMAIN g,
         \A x \in ChainIn(h, f) : g[x].prev = h[x].prev
  PROVE  ChainIn(g, f) = ChainIn(h, f)
  <1> DEFINE C == ChainIn(h, f)
             D == ChainIn(g, f)
  <1>1. Closed(h, f, C) /\ C \subseteq DOMAIN h
    BY ChainClosed
  <1>2. Closed(g, f, D) /\ D \subseteq DOMAIN g
    BY ChainClosed
  <1>3. Closed(g, f, C)
    BY <1>1 DEF Closed
  <1>4. D \subseteq C
    BY <1>3, ChainLeast
  <1>5. Closed(h, f, D)
    <2>1. \A y \in D : g[y].prev = h[y].prev
      BY <1>4
    <2> QED
      BY <1>2, <2>1 DEF Closed
  <1>6. D \subseteq DOMAIN h
    BY <1>1, <1>4
  <1>7. C \subseteq D
    BY <1>5, <1>6, ChainLeast
  <1> QED
    BY <1>4, <1>7

\* Every footer is on the chain of one head, and no chain has a loop.
Chained(h, head) ==
  /\ head \in [Allocators -> DOMAIN h \cup {0}]
  /\ \A f \in DOMAIN h : \E o \in Allocators : f \in ChainIn(h, head[o])
  /\ \A o, p \in Allocators : o # p => ChainIn(h, head[o]) \cap ChainIn(h, head[p]) = {}
  /\ \A f \in DOMAIN h : f \notin ChainIn(h, h[f].prev)

WithFooter(h, f, content) == [x \in DOMAIN h \cup {f} |-> IF x = f THEN content ELSE h[x]]
WithoutFooter(h, f) == [x \in DOMAIN h \ {f} |-> h[x]]

\* A fresh footer leaves the other chains alone.
FreshIn(h, f, content, g) ==
  /\ Linked(g) /\ DOMAIN g = DOMAIN h \cup {f}
  /\ g[f] = content /\ \A x \in DOMAIN h : g[x] = h[x]
  /\ \A x \in DOMAIN h \cup {0} : ChainIn(g, x) = ChainIn(h, x)
  /\ ChainIn(g, f) = {f} \cup ChainIn(h, content.prev)
LEMMA FreshFooter ==
  ASSUME NEW h, Linked(h), NEW f, f \notin DOMAIN h, f # 0,
         NEW content, content.prev \in DOMAIN h \cup {0},
         NEW g, g = WithFooter(h, f, content)
  PROVE  FreshIn(h, f, content, g)
  <1>1. DOMAIN g = DOMAIN h \cup {f} /\ g[f] = content /\ \A x \in DOMAIN h : g[x] = h[x]
    BY DEF WithFooter
  <1>2. Linked(g)
    BY <1>1 DEF Linked
  <1>3. ASSUME NEW x \in DOMAIN h \cup {0} PROVE ChainIn(g, x) = ChainIn(h, x)
    <2>1. ChainIn(h, x) \subseteq DOMAIN h
      BY DEF ChainIn
    <2> QED
      BY <1>1, <1>2, <2>1, ChainSame
  <1>4. ChainIn(g, f) = {f} \cup ChainIn(h, content.prev)
    BY <1>1, <1>2, <1>3, ChainStep
  <1> QED
    BY <1>1, <1>2, <1>3, <1>4 DEF FreshIn

\* A new block becomes the first one of its object.
LEMMA Push ==
  ASSUME NEW h, Linked(h), NEW head, Chained(h, head), NEW o \in Allocators,
         NEW f, f \notin DOMAIN h, f # 0, NEW content, content.prev = head[o]
  PROVE  LET g == WithFooter(h, f, content)
         IN  Linked(g) /\ Chained(g, [head EXCEPT ![o] = f])
  <1> DEFINE g == WithFooter(h, f, content)
             new == [head EXCEPT ![o] = f]
  <1>1. head \in [Allocators -> DOMAIN h \cup {0}]
    BY DEF Chained
  <1>2. /\ Linked(g) /\ DOMAIN g = DOMAIN h \cup {f}
        /\ g[f] = content /\ \A x \in DOMAIN h : g[x] = h[x]
        /\ \A x \in DOMAIN h \cup {0} : ChainIn(g, x) = ChainIn(h, x)
        /\ ChainIn(g, f) = {f} \cup ChainIn(h, head[o])
    <2>1. content.prev \in DOMAIN h \cup {0}
      BY <1>1
    <2> HIDE DEF new, g
    <2>2. FreshIn(h, f, content, g)
      BY <2>1, FreshFooter DEF g
    <2> QED
      BY <2>2 DEF FreshIn
  <1> HIDE DEF g
  <1>3. new \in [Allocators -> DOMAIN g \cup {0}]
    BY <1>1, <1>2
  <1>4. ChainIn(g, new[o]) = {f} \cup ChainIn(h, head[o])
    BY <1>1, <1>2
  <1>5. \A p \in Allocators : p # o => ChainIn(g, new[p]) = ChainIn(h, head[p])
    BY <1>1, <1>2
  <1>6. \A x : ChainIn(h, x) \subseteq DOMAIN h
    BY DEF ChainIn
  <1> HIDE DEF new
  <1>7. \A x \in DOMAIN g : \E p \in Allocators : x \in ChainIn(g, new[p])
    BY <1>2, <1>4, <1>5 DEF Chained
  <1>8. \A p, q \in Allocators : p # q => ChainIn(g, new[p]) \cap ChainIn(g, new[q]) = {}
    <2>1. \A p, q \in Allocators : p # q => ChainIn(h, head[p]) \cap ChainIn(h, head[q]) = {}
      BY DEF Chained
    <2>2. \A p : f \notin ChainIn(h, head[p])
      BY <1>6
    <2> QED
      BY <1>4, <1>5, <2>1, <2>2
  <1>9. \A x \in DOMAIN g : x \notin ChainIn(g, g[x].prev)
    <2>1. \A x \in DOMAIN h : h[x].prev \in DOMAIN h \cup {0}
      BY DEF Linked
    <2>2. f \notin ChainIn(h, head[o])
      BY <1>6
    <2>3. f \notin ChainIn(g, g[f].prev)
      BY <1>1, <1>2, <2>2
    <2>4. \A x \in DOMAIN h : x \notin ChainIn(g, g[x].prev)
      BY <1>2, <2>1 DEF Chained
    <2> QED
      BY <1>2, <2>3, <2>4
  <1>10. Chained(g, new)
    BY <1>3, <1>7, <1>8, <1>9 DEF Chained
  <1> QED
    BY <1>2, <1>10 DEF g, new

\* Nothing leads to the first footer of a chain.
LEMMA HeadIsFirst ==
  ASSUME NEW h, Linked(h), NEW head, Chained(h, head), NEW o \in Allocators, head[o] # 0,
         NEW x \in DOMAIN h
  PROVE  h[x].prev # head[o] /\ head[o] \notin ChainIn(h, h[x].prev)
  <1> DEFINE f == head[o]
  <1>1. f \in DOMAIN h
    BY DEF Chained
  <1>2. ChainIn(h, f) = {f} \cup ChainIn(h, h[f].prev)
    BY <1>1, ChainStep
  <1>3. f \notin ChainIn(h, h[f].prev)
    BY <1>1 DEF Chained
  <1>4. PICK p \in Allocators : x \in ChainIn(h, head[p])
    BY DEF Chained
  <1>5. head[p] \in DOMAIN h \cup {0} /\ h[f].prev \in DOMAIN h \cup {0} /\ h[x].prev \in DOMAIN h \cup {0}
    BY <1>1 DEF Chained, Linked
  <1>6. f \notin ChainIn(h, h[x].prev)
    <2>1. CASE p # o
      <3>1. f \notin ChainIn(h, head[p])
        BY <1>2, <2>1 DEF Chained
      <3> QED
        BY <1>4, <1>5, <3>1, ChainWithin
    <2>2. CASE p = o /\ x # f
      <3>1. x \in ChainIn(h, h[f].prev)
        BY <1>2, <1>4, <2>2
      <3> QED
        BY <1>3, <1>5, <3>1, ChainWithin
    <2>3. CASE x = f
      BY <1>3, <2>3
    <2> QED
      BY <2>1, <2>2, <2>3
  <1>7. h[x].prev = f => f \in ChainIn(h, h[x].prev)
    BY <1>2
  <1> QED
    BY <1>6, <1>7

\* The first block of a chain goes.
LEMMA Pop ==
  ASSUME NEW h, Linked(h), NEW head, Chained(h, head), NEW o \in Allocators, head[o] # 0
  PROVE  LET g == WithoutFooter(h, head[o])
         IN  Linked(g) /\ Chained(g, [head EXCEPT ![o] = h[head[o]].prev])
  <1> DEFINE f == head[o]
             g == WithoutFooter(h, f)
             new == [head EXCEPT ![o] = h[f].prev]
  <1>1. f \in DOMAIN h /\ head \in [Allocators -> DOMAIN h \cup {0}]
    BY DEF Chained
  <1>2. DOMAIN g = DOMAIN h \ {f} /\ \A x \in DOMAIN g : g[x] = h[x]
    BY DEF WithoutFooter
  <1>3. \A x \in DOMAIN h : h[x].prev \in (DOMAIN h \ {f}) \cup {0} /\ f \notin ChainIn(h, h[x].prev)
    BY HeadIsFirst DEF Linked
  <1>4. ChainIn(h, f) = {f} \cup ChainIn(h, h[f].prev)
    BY <1>1, ChainStep
  <1> HIDE DEF g
  <1>5. Linked(g)
    BY <1>2, <1>3 DEF Linked
  <1>6. ASSUME NEW x \in (DOMAIN h \ {f}) \cup {0}, f \notin ChainIn(h, x)
        PROVE  ChainIn(g, x) = ChainIn(h, x)
    <2>1. ChainIn(h, x) \subseteq DOMAIN g
      BY <1>2, <1>6 DEF ChainIn
    <2> QED
      BY <1>2, <1>5, <1>6, <2>1, ChainSame
  <1>7. \A p \in Allocators : p # o => f \notin ChainIn(h, head[p]) /\ head[p] # f
    <2>1. \A p \in Allocators : p # o => f \notin ChainIn(h, head[p])
      BY <1>4 DEF Chained
    <2> QED
      BY <1>4, <2>1
  <1>8. \A p \in Allocators : p # o => ChainIn(g, new[p]) = ChainIn(h, head[p])
    BY <1>1, <1>6, <1>7
  <1>9. new[o] = h[f].prev /\ ChainIn(g, new[o]) = ChainIn(h, h[f].prev)
    BY <1>1, <1>3, <1>6
  <1>10. new \in [Allocators -> DOMAIN g \cup {0}]
    BY <1>1, <1>2, <1>3, <1>7
  <1> HIDE DEF new
  <1>11. \A x \in DOMAIN g : \E p \in Allocators : x \in ChainIn(g, new[p])
    <2> SUFFICES ASSUME NEW x \in DOMAIN g PROVE \E p \in Allocators : x \in ChainIn(g, new[p])
      OBVIOUS
    <2>1. PICK p \in Allocators : x \in ChainIn(h, head[p])
      BY <1>2 DEF Chained
    <2>2. x # f
      BY <1>2
    <2> QED
      BY <1>4, <1>8, <1>9, <2>1, <2>2
  <1>12. \A p, q \in Allocators : p # q => ChainIn(g, new[p]) \cap ChainIn(g, new[q]) = {}
    <2>1. \A p, q \in Allocators : p # q => ChainIn(h, head[p]) \cap ChainIn(h, head[q]) = {}
      BY DEF Chained
    <2>2. \A p \in Allocators : ChainIn(g, new[p]) \subseteq ChainIn(h, head[p])
      BY <1>4, <1>8, <1>9
    <2> QED
      BY <2>1, <2>2
  <1>13. \A x \in DOMAIN g : x \notin ChainIn(g, g[x].prev)
    <2> SUFFICES ASSUME NEW x \in DOMAIN g PROVE x \notin ChainIn(g, g[x].prev)
      OBVIOUS
    <2>1. x \in DOMAIN h /\ g[x].prev = h[x].prev
      BY <1>2
    <2>2. ChainIn(g, h[x].prev) = ChainIn(h, h[x].prev)
      BY <1>3, <1>6, <2>1
    <2> QED
      BY <2>1, <2>2 DEF Chained
  <1>14. Chained(g, new)
    BY <1>10, <1>11, <1>12, <1>13 DEF Chained
  <1> QED
    BY <1>5, <1>14 DEF g, new

-----------------------------------------------------------------------------
(* The memory that is allocated.  Which blocks there are and whose they    *)
(* are does not depend on the threads: every footer is on the chain of one *)
(* object, and the blocks are those of the footers.                        *)

BumpLabels == {"idle", "loadCurrent", "loadEnd", "bump", "lock", "recheck", "storeCurrent",
               "storeEnd", "bumpNew"}
Footers == DOMAIN header
Calls == [object : Allocators \cup {None}, number : Nat, alignment : Nat \ {0}, size : Nat,
          current : Nat, end : Nat]
Regions == [object : Allocators, number : Nat, at : Nat, alignment : Nat \ {0}, size : Nat,
            current : Nat, end : Nat]

ObjectsTyped ==
  /\ endByte \in [Allocators -> Nat]
  /\ currentByte \in [Allocators -> Nat]
  /\ footer \in [Allocators -> Nat]
  /\ shift \in [Allocators -> Nat]
  /\ slowPathMutex \in [Allocators -> BumpThreads \cup {None}]
  /\ header \in [Footers -> [shift : Nat, prev : Nat]]
  /\ Footers \subseteq Nat \ {0}
ThreadsTyped ==
  /\ bumpPc \in [BumpThreads -> BumpLabels]
  /\ call \in [BumpThreads -> Calls]
  /\ bumpCalls \in Nat
  /\ \A t \in BumpThreads : bumpPc[t] # "idle" => call[t].object \in Allocators
RegionsTyped == regions \subseteq Regions

\* The lower end of the block of a footer.
BaseIn(h, f) == f + FooterSize - 2 ^ h[f].shift
Base(f) == BaseIn(header, f)
LEMMA BaseIs == \A f : BlockAt(f).base = Base(f)
  BY DEF BlockAt, Base, BaseIn

\* Where the chain of an object starts, also while it is being released.
Heads == [o \in Allocators |-> IF o = releasing.object THEN releasing.footer ELSE footer[o]]

\* Blocks have room for their footer and do not overlap.
BlocksInv ==
  /\ blocks = {BlockAt(f) : f \in Footers}
  /\ \A f \in Footers : Base(f) \in 1 .. f
  /\ \A f, g \in Footers : f # g => f + FooterSize <= Base(g) \/ g + FooterSize <= Base(f)

\* Every footer is on one chain, and no chain has a loop.
ChainsInv == Linked(header) /\ Chained(header, Heads)

\* No call runs while an object is moved or destroyed.
ReleaseInv ==
  /\ releasing \in [object : Allocators \cup {None}, source : Allocators \cup {None}, footer : Nat]
  /\ IF releasing.object = None THEN releasing = Quiet
     ELSE releasing.source # releasing.object /\ \A t \in BumpThreads : bumpPc[t] = "idle"

MemoryInv == ObjectsTyped /\ ThreadsTyped /\ RegionsTyped /\ BlocksInv /\ ChainsInv /\ ReleaseInv

\* The region that getAlloc finds is aligned, has room and is as high as can be.
LEMMA GetAllocIs ==
  ASSUME NEW c \in Nat, NEW alignment \in Nat \ {0}, NEW size \in Nat
  PROVE  /\ GetAlloc(c, alignment, size) \in Nat
         /\ GetAlloc(c, alignment, size) % alignment = 0
         /\ size <= c => GetAlloc(c, alignment, size) + size <= c
         /\ \A b \in Nat : b % alignment = 0 /\ b + size <= c => b <= GetAlloc(c, alignment, size)
  <1>1. CASE size > c
    BY <1>1 DEF GetAlloc
  <1>2. CASE size <= c
    <2> DEFINE room == c - size
               a == (room \div alignment) * alignment
    <2>1. room \in Nat /\ GetAlloc(c, alignment, size) = a
      BY <1>2 DEF GetAlloc
    <2> HIDE DEF room
    <2>2. room \div alignment \in Nat
      BY <2>1
    <2>3. a \in Nat /\ a <= room
      BY <2>1, <2>2
    <2>4. a % alignment = 0
      BY <2>1, <2>2
    <2>5. \A b \in Nat : b % alignment = 0 /\ b <= room => b <= a
      BY <2>1
    <2> HIDE DEF a
    <2>6. \A b \in Nat : b + size <= c => b <= room
      BY DEF room
    <2>7. a <= room => a + size <= c
      BY <2>3 DEF room
    <2> QED
      BY <2>1, <2>3, <2>4, <2>5, <2>6, <2>7
  <1> QED
    BY <1>1, <1>2

\* While a thread is in a call, nothing is being released.
LEMMA InCallQuiet ==
  ASSUME MemoryInv, NEW t \in BumpThreads, bumpPc[t] # "idle"
  PROVE  /\ call[t].object \in Allocators /\ call[t] \in Calls
         /\ releasing = Quiet /\ Heads = footer
  <1>1. call[t].object \in Allocators /\ call[t] \in Calls
    BY DEF MemoryInv, ThreadsTyped
  <1>2. releasing.object = None /\ releasing = Quiet
    BY DEF MemoryInv, ReleaseInv
  <1>3. Heads = [o \in Allocators |-> footer[o]]
    BY <1>2, NoneAssumption DEF Heads
  <1>4. footer \in [Allocators -> Nat]
    BY DEF MemoryInv, ObjectsTyped
  <1> QED
    BY <1>1, <1>2, <1>3, <1>4

\* Outside of calls, nobody reads what a thread last read.
LEMMA ProspectIs ==
  ASSUME MemoryInv, NEW t \in BumpThreads
  PROVE  /\ Prospect(t) \in Nat /\ Prospect(t) % call[t].alignment = 0
         /\ call[t].size <= call[t].current => Prospect(t) + call[t].size <= call[t].current
  <1>1. call[t].current \in Nat /\ call[t].alignment \in Nat \ {0} /\ call[t].size \in Nat
    BY DEF MemoryInv, ThreadsTyped, Calls
  <1> QED
    BY <1>1, GetAllocIs DEF Prospect

\* What NewBlock does: the new block is none of the others.
NewBlockAs(t, s, base, f) ==
  LET o == call[t].object
  IN  /\ f = base + 2 ^ s - FooterSize /\ base <= f /\ f \notin Footers
      /\ call[t].size + base <= f
      /\ base % call[t].alignment = 0
      /\ \A g \in Footers : f + FooterSize <= Base(g) \/ g + FooterSize <= base
      /\ blocks' = blocks \cup {[base |-> base, size |-> 2 ^ s]}
      /\ header' = WithFooter(header, f, [shift |-> s, prev |-> footer[o]])
      /\ footer' = [footer EXCEPT ![o] = f]
      /\ shift' = [shift EXCEPT ![o] = s]
      /\ call' = [call EXCEPT ![t].current = f, ![t].end = base]
LEMMA NewBlockIs ==
  ASSUME MemoryInv, NEW t \in BumpThreads, NewBlock(t)
  PROVE  \E s \in Nat, base \in Nat \ {0}, f \in Nat \ {0} : NewBlockAs(t, s, base, f)
  <1> DEFINE o == call[t].object
             size == call[t].size
  <1>1. bumpPc[t] = "recheck"
    BY DEF NewBlock
  <1>2. o \in Allocators /\ size \in Nat /\ endByte[o] \in Nat /\ shift[o] \in Nat
    BY <1>1, InCallQuiet DEF MemoryInv, ObjectsTyped, Calls
  <1>3. PICK s \in NextShift(o, size) : \E base \in Places(call[t].alignment, 2 ^ s) :
           LET f == base + 2 ^ s - FooterSize
           IN  /\ blocks' = blocks \cup {[base |-> base, size |-> 2 ^ s]}
               /\ header' = [x \in DOMAIN header \cup {f} |->
                               IF x = f THEN [shift |-> s, prev |-> footer[o]] ELSE header[x]]
               /\ footer' = [footer EXCEPT ![o] = f]
               /\ shift' = [shift EXCEPT ![o] = s]
               /\ call' = [call EXCEPT ![t].current = f, ![t].end = base]
    BY DEF NewBlock
  <1>4. PICK base \in Places(call[t].alignment, 2 ^ s) :
           LET f == base + 2 ^ s - FooterSize
           IN  /\ blocks' = blocks \cup {[base |-> base, size |-> 2 ^ s]}
               /\ header' = [x \in DOMAIN header \cup {f} |->
                               IF x = f THEN [shift |-> s, prev |-> footer[o]] ELSE header[x]]
               /\ footer' = [footer EXCEPT ![o] = f]
               /\ shift' = [shift EXCEPT ![o] = s]
               /\ call' = [call EXCEPT ![t].current = f, ![t].end = base]
    BY <1>3
  <1> DEFINE width == 2 ^ s
             f == base + width - FooterSize
  <1>5. s \in Nat /\ width \in Int /\ size + FooterSize <= width
    <2>1. s \in (shift[o] + 1) .. (shift[o] + 1 + (size + FooterSize)) /\ 2 ^ s >= size + FooterSize
      BY DEF NextShift, FirstShift
    <2>2. s \in Nat
      BY <1>2, <2>1, FooterAssumption
    <2>3. 2 ^ s \in Int
      BY <2>2
    <2> QED
      BY <1>2, <2>1, <2>2, <2>3, FooterAssumption
  <1>6. base \in Places(call[t].alignment, width)
    OBVIOUS
  <1> HIDE DEF width
  <1>7. base \in Nat \ {0} /\ base % call[t].alignment = 0
    BY <1>6, BasesAssumption DEF Places
  <1>8. \A b \in blocks : base + width <= b.base \/ b.base + b.size <= base
    BY <1>6 DEF Places
  <1>9. f \in Nat \ {0} /\ f + FooterSize = base + width /\ base <= f /\ size + base <= f
    BY <1>2, <1>5, <1>7, FooterAssumption
  <1> HIDE DEF f
  <1>10. ASSUME NEW g \in Footers PROVE f + FooterSize <= Base(g) \/ g + FooterSize <= base
    <2>1. BlockAt(g) \in blocks
      BY DEF MemoryInv, BlocksInv
    <2>2. header[g].shift \in Nat /\ g \in Nat
      BY DEF MemoryInv, ObjectsTyped
    <2>3. 2 ^ header[g].shift \in Int
      BY <2>2
    <2>4. BlockAt(g).base + BlockAt(g).size = g + FooterSize
      BY <2>2, <2>3, FooterAssumption DEF BlockAt
    <2> QED
      BY <1>8, <1>9, <2>1, <2>4, BaseIs
  <1>11. f \notin Footers
    <2> SUFFICES ASSUME f \in Footers PROVE FALSE
      OBVIOUS
    <2>1. Base(f) \in 1 .. f
      BY DEF MemoryInv, BlocksInv
    <2>2. f + FooterSize <= Base(f) \/ f + FooterSize <= base
      BY <1>10
    <2> QED
      BY <1>7, <1>9, <2>1, <2>2, FooterAssumption
  <1>12. /\ blocks' = blocks \cup {[base |-> base, size |-> 2 ^ s]}
         /\ header' = WithFooter(header, f, [shift |-> s, prev |-> footer[o]])
         /\ footer' = [footer EXCEPT ![o] = f]
         /\ shift' = [shift EXCEPT ![o] = s]
         /\ call' = [call EXCEPT ![t].current = f, ![t].end = base]
    BY <1>4 DEF f, width, WithFooter
  <1>13. f = base + 2 ^ s - FooterSize
    BY DEF f, width
  <1> QED
    BY <1>5, <1>7, <1>9, <1>10, <1>11, <1>12, <1>13 DEF NewBlockAs

-----------------------------------------------------------------------------
(* Every step keeps the types.                                             *)

\* What handing out a region does to the types.
LEMMA HandOutTyped ==
  ASSUME MemoryInv, NEW t \in BumpThreads, bumpPc[t] # "idle", HandOut(t)
  PROVE  /\ currentByte' \in [Allocators -> Nat]
         /\ bumpPc' \in [BumpThreads -> BumpLabels]
         /\ call' \in [BumpThreads -> Calls]
         /\ \A u \in BumpThreads : bumpPc'[u] # "idle" => call'[u].object \in Allocators
         /\ regions' \subseteq Regions
  <1>1. call[t] \in Calls /\ call[t].object \in Allocators /\ Prospect(t) \in Nat
    BY InCallQuiet, ProspectIs
  <1>2. currentByte' = [currentByte EXCEPT ![call[t].object] = Prospect(t)]
    BY DEF HandOut
  <1>3. currentByte' \in [Allocators -> Nat]
    BY <1>1, <1>2 DEF MemoryInv, ObjectsTyped
  <1>4. NoCall \in Calls
    BY DEF NoCall, Calls
  <1>5. call' = [call EXCEPT ![t] = NoCall] /\ bumpPc' = [bumpPc EXCEPT ![t] = "idle"]
    BY DEF HandOut, BumpGoto
  <1>6. bumpPc' \in [BumpThreads -> BumpLabels] /\ call' \in [BumpThreads -> Calls]
    BY <1>4, <1>5 DEF MemoryInv, ThreadsTyped, BumpLabels
  <1>7. \A u \in BumpThreads : bumpPc'[u] # "idle" => call'[u].object \in Allocators
    BY <1>5 DEF MemoryInv, ThreadsTyped
  <1> DEFINE r == [object |-> call[t].object, number |-> call[t].number, at |-> Prospect(t),
                   alignment |-> call[t].alignment, size |-> call[t].size,
                   current |-> call[t].current, end |-> call[t].end]
  <1>8. r \in Regions
    BY <1>1 DEF Calls, Regions
  <1>9. regions' = regions \cup {r}
    BY DEF HandOut
  <1>10. regions' \subseteq Regions
    BY <1>8, <1>9 DEF MemoryInv, RegionsTyped
  <1> QED
    BY <1>3, <1>6, <1>7, <1>10

\* A step of a thread goes to a label and reads numbers.
LEMMA ThreadsTypedStep ==
  ASSUME MemoryInv, NEW t \in BumpThreads, bumpPc[t] # "idle",
         NEW label \in BumpLabels, BumpGoto(t, label),
         NEW c \in Nat, NEW e \in Nat,
         call' \in {call, [call EXCEPT ![t].current = c], [call EXCEPT ![t].end = e],
                    [call EXCEPT ![t].current = c, ![t].end = e]},
         bumpCalls' = bumpCalls
  PROVE  ThreadsTyped'
  <1>1. bumpPc' = [bumpPc EXCEPT ![t] = label] /\ bumpPc \in [BumpThreads -> BumpLabels]
    BY DEF BumpGoto, MemoryInv, ThreadsTyped
  <1>2. bumpPc' \in [BumpThreads -> BumpLabels]
    BY <1>1
  <1>3. call \in [BumpThreads -> Calls]
    BY DEF MemoryInv, ThreadsTyped
  <1> DEFINE m == [call[t] EXCEPT !.current = c]
             n == [call[t] EXCEPT !.end = e]
             k == [call[t] EXCEPT !.current = c, !.end = e]
  <1>4. m \in Calls /\ m.object = call[t].object
    BY <1>3 DEF Calls
  <1>5. n \in Calls /\ n.object = call[t].object
    BY <1>3 DEF Calls
  <1>6. k \in Calls /\ k.object = call[t].object
    BY <1>3 DEF Calls
  <1>7. \/ call' = call \/ call' = [call EXCEPT ![t] = m] \/ call' = [call EXCEPT ![t] = n]
        \/ call' = [call EXCEPT ![t] = k]
    OBVIOUS
  <1> HIDE DEF m, n, k
  <1>8. call' \in [BumpThreads -> Calls]
    BY <1>3, <1>4, <1>5, <1>6, <1>7
  <1>9. \A u \in BumpThreads : call'[u].object = call[u].object
    BY <1>3, <1>4, <1>5, <1>6, <1>7
  <1>10. \A u \in BumpThreads : bumpPc'[u] # "idle" => call'[u].object \in Allocators
    BY <1>1, <1>9 DEF MemoryInv, ThreadsTyped
  <1> QED
    BY <1>2, <1>8, <1>10 DEF MemoryInv, ThreadsTyped

\* A step of a thread.
LEMMA ThreadTypes ==
  ASSUME MemoryInv, NEW t \in BumpThreads, BumpStep(t)
  PROVE  ObjectsTyped' /\ ThreadsTyped' /\ RegionsTyped' /\ ReleaseInv'
  <1> DEFINE o == call[t].object
  <1>0. bumpPc[t] # "idle" /\ releasing' = releasing
    BY DEF BumpStep, LoadCurrentByte, LoadEnd, Bump, Lock, Recheck, NewBlock, StoreCurrent,
           StoreEnd, BumpNew
  <1>q. releasing = Quiet /\ o \in Allocators /\ call[t] \in Calls
    BY <1>0, InCallQuiet
  <1>r. ReleaseInv'
    BY <1>0, <1>q DEF MemoryInv, ReleaseInv, Quiet
  <1>n. call[t].current \in Nat /\ call[t].end \in Nat /\ currentByte[o] \in Nat /\ endByte[o] \in Nat
    BY <1>q DEF MemoryInv, ObjectsTyped, Calls
  <1>1. CASE LoadCurrentByte(t)
    <2>1. UNCHANGED <<allocatorVars, memoryVars, regions, bumpCalls>>
      BY <1>1 DEF LoadCurrentByte
    <2>2. BumpGoto(t, "loadEnd") /\ call' = [call EXCEPT ![t].current = currentByte[o]]
      BY <1>1 DEF LoadCurrentByte
    <2>3. ThreadsTyped'
      BY <1>0, <1>n, <2>1, <2>2, ThreadsTypedStep DEF BumpLabels
    <2> QED
      BY <1>r, <2>1, <2>3 DEF MemoryInv, ObjectsTyped, RegionsTyped, Footers, allocatorVars, memoryVars
  <1>2. CASE LoadEnd(t)
    <2>1. UNCHANGED <<allocatorVars, memoryVars, regions, bumpCalls>>
      BY <1>2 DEF LoadEnd
    <2>2. /\ BumpGoto(t, "bump") \/ BumpGoto(t, "lock")
          /\ call' = [call EXCEPT ![t].end = endByte[o]]
      BY <1>2 DEF LoadEnd
    <2>3. ThreadsTyped'
      BY <1>0, <1>n, <2>1, <2>2, ThreadsTypedStep DEF BumpLabels
    <2> QED
      BY <1>r, <2>1, <2>3 DEF MemoryInv, ObjectsTyped, RegionsTyped, Footers, allocatorVars, memoryVars
  <1>3. CASE Bump(t)
    <2>1. UNCHANGED <<endByte, footer, shift, slowPathMutex, header, bumpCalls>>
      BY <1>3 DEF Bump, memoryVars
    <2>2. CASE BumpSucceeds(t)
      <3>1. HandOut(t)
        BY <1>3, <2>2 DEF Bump
      <3>2. /\ currentByte' \in [Allocators -> Nat]
            /\ bumpPc' \in [BumpThreads -> BumpLabels]
            /\ call' \in [BumpThreads -> Calls]
            /\ \A u \in BumpThreads : bumpPc'[u] # "idle" => call'[u].object \in Allocators
            /\ regions' \subseteq Regions
        BY <1>0, <3>1, HandOutTyped
      <3>3. ObjectsTyped'
        BY <2>1, <3>2 DEF MemoryInv, ObjectsTyped, Footers
      <3>4. ThreadsTyped' /\ RegionsTyped'
        BY <2>1, <3>2 DEF MemoryInv, ThreadsTyped, RegionsTyped
      <3> QED
        BY <1>r, <3>3, <3>4
    <2>3. CASE ~ BumpSucceeds(t)
      <3>1. /\ BumpGoto(t, "loadEnd") /\ call' = [call EXCEPT ![t].current = currentByte[o]]
            /\ UNCHANGED <<currentByte, regions>>
        BY <1>3, <2>3 DEF Bump
      <3>2. ThreadsTyped'
        BY <1>0, <1>n, <2>1, <3>1, ThreadsTypedStep DEF BumpLabels
      <3> QED
        BY <1>r, <2>1, <3>1, <3>2 DEF MemoryInv, ObjectsTyped, RegionsTyped, Footers
    <2> QED
      BY <2>2, <2>3
  <1>4. CASE Lock(t)
    <2>1. /\ UNCHANGED <<endByte, currentByte, footer, shift, header, regions, call, bumpCalls>>
          /\ BumpGoto(t, "recheck") /\ slowPathMutex' = [slowPathMutex EXCEPT ![o] = t]
      BY <1>4 DEF Lock, memoryVars
    <2>2. ThreadsTyped'
      BY <1>0, <1>n, <2>1, ThreadsTypedStep DEF BumpLabels
    <2> QED
      BY <1>r, <2>1, <2>2 DEF MemoryInv, ObjectsTyped, RegionsTyped, Footers
  <1>5. CASE Recheck(t)
    <2>1. /\ UNCHANGED <<endByte, currentByte, footer, shift, header, regions, call, bumpCalls>>
          /\ BumpGoto(t, "loadCurrent") /\ slowPathMutex' = [slowPathMutex EXCEPT ![o] = None]
      BY <1>5 DEF Recheck, memoryVars, Unlock
    <2>2. ThreadsTyped'
      BY <1>0, <1>n, <2>1, ThreadsTypedStep DEF BumpLabels
    <2> QED
      BY <1>r, <2>1, <2>2 DEF MemoryInv, ObjectsTyped, RegionsTyped, Footers
  <1>6. CASE NewBlock(t)
    <2>0. PICK s \in Nat, base \in Nat \ {0}, f \in Nat \ {0} : NewBlockAs(t, s, base, f)
      BY <1>6, NewBlockIs
    <2>1. /\ header' = WithFooter(header, f, [shift |-> s, prev |-> footer[o]])
          /\ footer' = [footer EXCEPT ![o] = f]
          /\ shift' = [shift EXCEPT ![o] = s]
          /\ call' = [call EXCEPT ![t].current = f, ![t].end = base]
      BY <2>0 DEF NewBlockAs
    <2>2. /\ UNCHANGED <<endByte, currentByte, slowPathMutex, regions, bumpCalls>>
          /\ BumpGoto(t, "storeCurrent")
      BY <1>6 DEF NewBlock
    <2>3. ThreadsTyped'
      <3>1. f \in Nat /\ base \in Nat
        OBVIOUS
      <3> QED
        BY <1>0, <2>1, <2>2, <3>1, ThreadsTypedStep DEF BumpLabels
    <2>4. footer' \in [Allocators -> Nat] /\ shift' \in [Allocators -> Nat]
      BY <1>q, <2>1 DEF MemoryInv, ObjectsTyped
    <2>5. Footers' = Footers \cup {f} /\ header' \in [Footers' -> [shift : Nat, prev : Nat]]
      <3>1. footer[o] \in Nat /\ header \in [Footers -> [shift : Nat, prev : Nat]]
        BY <1>q DEF MemoryInv, ObjectsTyped
      <3> QED
        BY <2>1, <3>1 DEF WithFooter, Footers
    <2>6. ObjectsTyped'
      BY <2>2, <2>4, <2>5 DEF MemoryInv, ObjectsTyped
    <2> QED
      BY <1>r, <2>2, <2>3, <2>6 DEF MemoryInv, RegionsTyped
  <1>7. CASE StoreCurrent(t)
    <2>1. /\ UNCHANGED <<endByte, slowPathMutex, footer, shift, header, regions, call, bumpCalls>>
          /\ BumpGoto(t, "storeEnd") /\ currentByte' = [currentByte EXCEPT ![o] = call[t].current]
      BY <1>7 DEF StoreCurrent, memoryVars
    <2>2. ThreadsTyped'
      BY <1>0, <1>n, <2>1, ThreadsTypedStep DEF BumpLabels
    <2> QED
      BY <1>r, <1>n, <2>1, <2>2 DEF MemoryInv, ObjectsTyped, RegionsTyped, Footers
  <1>8. CASE StoreEnd(t)
    <2>1. /\ UNCHANGED <<currentByte, slowPathMutex, footer, shift, header, regions, call, bumpCalls>>
          /\ BumpGoto(t, "bumpNew") /\ endByte' = [endByte EXCEPT ![o] = call[t].end]
      BY <1>8 DEF StoreEnd, memoryVars
    <2>2. ThreadsTyped'
      BY <1>0, <1>n, <2>1, ThreadsTypedStep DEF BumpLabels
    <2> QED
      BY <1>r, <1>n, <2>1, <2>2 DEF MemoryInv, ObjectsTyped, RegionsTyped, Footers
  <1>9. CASE BumpNew(t)
    <2>1. /\ UNCHANGED <<endByte, footer, shift, header, bumpCalls>>
          /\ slowPathMutex' = [slowPathMutex EXCEPT ![o] = None]
      BY <1>9 DEF BumpNew, memoryVars, Unlock
    <2>2. slowPathMutex' \in [Allocators -> BumpThreads \cup {None}]
      BY <2>1 DEF MemoryInv, ObjectsTyped
    <2>3. CASE BumpSucceeds(t)
      <3>1. HandOut(t)
        BY <1>9, <2>3 DEF BumpNew
      <3>2. /\ currentByte' \in [Allocators -> Nat]
            /\ bumpPc' \in [BumpThreads -> BumpLabels]
            /\ call' \in [BumpThreads -> Calls]
            /\ \A u \in BumpThreads : bumpPc'[u] # "idle" => call'[u].object \in Allocators
            /\ regions' \subseteq Regions
        BY <1>0, <3>1, HandOutTyped
      <3>3. ObjectsTyped'
        BY <2>1, <2>2, <3>2 DEF MemoryInv, ObjectsTyped, Footers
      <3>4. ThreadsTyped' /\ RegionsTyped'
        BY <2>1, <3>2 DEF MemoryInv, ThreadsTyped, RegionsTyped
      <3> QED
        BY <1>r, <3>3, <3>4
    <2>4. CASE ~ BumpSucceeds(t)
      <3>1. BumpGoto(t, "loadCurrent") /\ UNCHANGED <<currentByte, regions, call>>
        BY <1>9, <2>4 DEF BumpNew
      <3>2. ThreadsTyped'
        BY <1>0, <1>n, <2>1, <3>1, ThreadsTypedStep DEF BumpLabels
      <3> QED
        BY <1>r, <2>1, <2>2, <3>1, <3>2 DEF MemoryInv, ObjectsTyped, RegionsTyped, Footers
    <2> QED
      BY <2>3, <2>4
  <1> QED
    BY <1>1, <1>2, <1>3, <1>4, <1>5, <1>6, <1>7, <1>8, <1>9 DEF BumpStep

\* A call begins.
LEMMA AllocateTypes ==
  ASSUME MemoryInv, NEW t \in BumpThreads, NEW o \in Allocators, NEW request \in Requests,
         AllocateRegion(t, o, request)
  PROVE  ObjectsTyped' /\ ThreadsTyped' /\ RegionsTyped' /\ ReleaseInv'
  <1>1. /\ releasing = Quiet /\ bumpCalls' = bumpCalls + 1 /\ BumpGoto(t, "loadCurrent")
        /\ UNCHANGED <<allocatorVars, memoryVars, regions, releasing>>
        /\ call' = [call EXCEPT ![t] = [NoCall EXCEPT !.object = o, !.number = bumpCalls + 1,
                                          !.alignment = request[1], !.size = request[2]]]
    BY DEF AllocateRegion
  <1>2. request[1] \in Nat \ {0} /\ request[2] \in Nat
    BY RequestsAssumption
  <1> DEFINE m == [NoCall EXCEPT !.object = o, !.number = bumpCalls + 1,
                                 !.alignment = request[1], !.size = request[2]]
  <1>3. m \in Calls /\ m.object = o
    <2> DEFINE alignment == request[1]
               size == request[2]
               number == bumpCalls + 1
    <2>1. number \in Nat /\ alignment \in Nat \ {0} /\ size \in Nat
      BY <1>2 DEF MemoryInv, ThreadsTyped
    <2> HIDE DEF alignment, size, number
    <2>2. NoCall \in Calls
      BY DEF NoCall, Calls
    <2> DEFINE n == [NoCall EXCEPT !.object = o, !.number = number, !.alignment = alignment,
                                   !.size = size]
    <2>3. n \in Calls /\ n.object = o
      BY <2>1, <2>2 DEF Calls
    <2> QED
      BY <2>3 DEF alignment, size, number
  <1>4. call' = [call EXCEPT ![t] = m]
    BY <1>1
  <1> HIDE DEF m
  <1>5. ThreadsTyped'
    BY <1>1, <1>3, <1>4 DEF MemoryInv, ThreadsTyped, BumpGoto, BumpLabels
  <1>6. ReleaseInv'
    BY <1>1 DEF MemoryInv, ReleaseInv, Quiet
  <1> QED
    BY <1>1, <1>5, <1>6 DEF MemoryInv, ObjectsTyped, RegionsTyped, Footers, allocatorVars, memoryVars

\* A move or a destructor begins.
LEMMA ReleaseTypes ==
  ASSUME MemoryInv, NEW o \in Allocators, NEW source \in Allocators \cup {None}, o # source,
         Release(o, source)
  PROVE  ObjectsTyped' /\ ThreadsTyped' /\ RegionsTyped' /\ ReleaseInv'
  <1>1. /\ releasing = Quiet /\ \A t \in BumpThreads : bumpPc[t] = "idle"
        /\ releasing' = [object |-> o, source |-> source, footer |-> footer[o]]
        /\ regions' = {r \in regions : r.object # o}
        /\ UNCHANGED <<allocatorVars, memoryVars, callVars, bumpCalls>>
    BY DEF Release
  <1>2. footer[o] \in Nat /\ o # None
    BY NoneAssumption DEF MemoryInv, ObjectsTyped
  <1>3. ReleaseInv'
    BY <1>1, <1>2 DEF ReleaseInv, callVars
  <1>4. ThreadsTyped'
    BY <1>1 DEF MemoryInv, ThreadsTyped, callVars
  <1>5. RegionsTyped'
    BY <1>1 DEF MemoryInv, RegionsTyped
  <1> QED
    BY <1>1, <1>3, <1>4, <1>5 DEF MemoryInv, ObjectsTyped, Footers, allocatorVars, memoryVars

\* What is known while an object is released.
LEMMA Releasing ==
  ASSUME MemoryInv, releasing # Quiet
  PROVE  /\ releasing.object \in Allocators /\ releasing.source \in Allocators \cup {None}
         /\ releasing.source # releasing.object /\ releasing.footer \in Nat
         /\ \A t \in BumpThreads : bumpPc[t] = "idle"
         /\ Heads[releasing.object] = releasing.footer
  BY DEF MemoryInv, ReleaseInv, Heads

\* A block is freed.
LEMMA FreeBlockTypes ==
  ASSUME MemoryInv, FreeBlock
  PROVE  ObjectsTyped' /\ ThreadsTyped' /\ RegionsTyped' /\ ReleaseInv'
  <1> DEFINE f == releasing.footer
  <1>1. /\ f # 0 /\ header' = WithoutFooter(header, f)
        /\ releasing' = [releasing EXCEPT !.footer = header[f].prev]
        /\ UNCHANGED <<allocatorVars, regions, callVars, bumpCalls>>
    BY DEF FreeBlock, WithoutFooter
  <1>2. releasing # Quiet
    BY <1>1 DEF Quiet
  <1>3. f \in Footers
    BY <1>1, <1>2, Releasing DEF MemoryInv, ChainsInv, Chained, Footers
  <1>4. header[f].prev \in Nat
    BY <1>3 DEF MemoryInv, ObjectsTyped
  <1>5. releasing.object # None
    BY <1>2, Releasing, NoneAssumption
  <1>6. ReleaseInv'
    BY <1>1, <1>4, <1>5 DEF MemoryInv, ReleaseInv, callVars
  <1>7. Footers' = Footers \ {f} /\ header' \in [Footers' -> [shift : Nat, prev : Nat]]
    BY <1>1 DEF MemoryInv, ObjectsTyped, WithoutFooter, Footers
  <1>8. ObjectsTyped'
    BY <1>1, <1>7 DEF MemoryInv, ObjectsTyped, allocatorVars
  <1> QED
    BY <1>1, <1>6, <1>8 DEF MemoryInv, ThreadsTyped, RegionsTyped, callVars

\* What a field is after the move or the destructor.
LEMMA MovedIs ==
  ASSUME MemoryInv, releasing # Quiet, NEW none \in Nat, NEW field \in [Allocators -> Nat]
  PROVE  /\ Moved(field, none) \in [Allocators -> Nat]
         /\ \A o \in Allocators :
              Moved(field, none)[o] =
                IF o = releasing.object
                THEN IF releasing.source = None THEN none ELSE field[releasing.source]
                ELSE IF o = releasing.source THEN none ELSE field[o]
  <1>1. releasing.object \in Allocators /\ releasing.source \in Allocators \cup {None}
        /\ releasing.source # releasing.object
    BY Releasing
  <1>2. CASE releasing.source = None
    BY <1>1, <1>2, NoneAssumption DEF Moved
  <1>3. CASE releasing.source # None
    BY <1>1, <1>3 DEF Moved
  <1> QED
    BY <1>2, <1>3

\* A move or a destructor ends.
LEMMA ReleasedTypes ==
  ASSUME MemoryInv, Released
  PROVE  ObjectsTyped' /\ ThreadsTyped' /\ RegionsTyped' /\ ReleaseInv'
  <1>1. /\ releasing # Quiet /\ releasing.footer = 0 /\ releasing' = Quiet
        /\ endByte' = Moved(endByte, 0) /\ currentByte' = Moved(currentByte, 0)
        /\ footer' = Moved(footer, 0) /\ shift' = Moved(shift, InitialShift)
        /\ regions' = {[r EXCEPT !.object = IF @ = releasing.source THEN releasing.object ELSE @] : r \in regions}
        /\ UNCHANGED <<slowPathMutex, memoryVars, callVars, bumpCalls>>
    BY DEF Released
  <1>2. /\ endByte' \in [Allocators -> Nat] /\ currentByte' \in [Allocators -> Nat]
        /\ footer' \in [Allocators -> Nat] /\ shift' \in [Allocators -> Nat]
    <2>1. /\ endByte \in [Allocators -> Nat] /\ currentByte \in [Allocators -> Nat]
          /\ footer \in [Allocators -> Nat] /\ shift \in [Allocators -> Nat]
          /\ InitialShift \in Nat /\ 0 \in Nat
      BY ShiftAssumption DEF MemoryInv, ObjectsTyped
    <2> QED
      BY <1>1, <2>1, MovedIs
  <1>3. ReleaseInv'
    BY <1>1 DEF ReleaseInv, Quiet
  <1>4. ASSUME NEW r \in regions
        PROVE  [r EXCEPT !.object = IF @ = releasing.source THEN releasing.object ELSE @] \in Regions
    <2>1. r \in Regions /\ releasing.object \in Allocators
      BY <1>1, Releasing DEF MemoryInv, RegionsTyped
    <2> QED
      BY <2>1 DEF Regions
  <1>5. RegionsTyped'
    BY <1>1, <1>4 DEF RegionsTyped
  <1>6. ThreadsTyped'
    BY <1>1 DEF MemoryInv, ThreadsTyped, callVars
  <1>7. ObjectsTyped'
    BY <1>1, <1>2 DEF MemoryInv, ObjectsTyped, Footers, memoryVars
  <1> QED
    BY <1>3, <1>5, <1>6, <1>7

-----------------------------------------------------------------------------
(* Every step keeps the blocks and the chains.                             *)

LEMMA MemoryInit == BumpInit => MemoryInv
  <1> SUFFICES ASSUME BumpInit PROVE MemoryInv
    OBVIOUS
  <1>1. ObjectsTyped /\ Footers = {}
    BY ShiftAssumption DEF BumpInit, ObjectsTyped, Footers
  <1>2. ThreadsTyped /\ RegionsTyped
    BY DEF BumpInit, ThreadsTyped, RegionsTyped, BumpLabels, NoCall, Calls
  <1>3. BlocksInv
    BY <1>1 DEF BumpInit, BlocksInv
  <1>4. Heads \in [Allocators -> {0}]
    BY DEF BumpInit, Heads, Quiet
  <1>5. ChainIn(header, 0) = {}
    BY ChainNone
  <1>6. ChainsInv
    BY <1>1, <1>4, <1>5 DEF ChainsInv, Linked, Chained, Footers
  <1>7. ReleaseInv
    BY DEF BumpInit, ReleaseInv, Quiet
  <1> QED
    BY <1>1, <1>2, <1>3, <1>6, <1>7 DEF MemoryInv

\* A step that leaves the footers alone.
LEMMA MemoryFrame ==
  ASSUME MemoryInv, UNCHANGED <<memoryVars, Heads>>
  PROVE  BlocksInv' /\ ChainsInv'
  <1>1. header' = header /\ blocks' = blocks /\ Heads' = Heads
    BY DEF memoryVars
  <1> QED
    BY <1>1 DEF MemoryInv, BlocksInv, ChainsInv, Linked, Chained, ChainIn, Closed, Footers, Base, BaseIn, BlockAt

\* A new block.
LEMMA NewBlockMemory ==
  ASSUME MemoryInv, NEW t \in BumpThreads, NewBlock(t)
  PROVE  BlocksInv' /\ ChainsInv'
  <1> DEFINE o == call[t].object
  <1>1. bumpPc[t] # "idle" /\ releasing' = releasing
    BY DEF NewBlock
  <1>2. releasing = Quiet /\ o \in Allocators /\ Heads = footer
    BY <1>1, InCallQuiet
  <1>3. PICK s \in Nat, base \in Nat \ {0}, f \in Nat \ {0} : NewBlockAs(t, s, base, f)
    BY NewBlockIs
  <1>4. /\ f = base + 2 ^ s - FooterSize /\ base <= f /\ f \notin Footers
        /\ \A g \in Footers : f + FooterSize <= Base(g) \/ g + FooterSize <= base
        /\ blocks' = blocks \cup {[base |-> base, size |-> 2 ^ s]}
        /\ header' = WithFooter(header, f, [shift |-> s, prev |-> footer[o]])
        /\ footer' = [footer EXCEPT ![o] = f]
    BY <1>3 DEF NewBlockAs
  <1>5. Heads' = [Heads EXCEPT ![o] = f]
    <2>1. \A p \in Allocators : p # releasing'.object
      BY <1>1, <1>2, NoneAssumption DEF Quiet
    <2>2. Heads' = [p \in Allocators |-> footer'[p]]
      BY <2>1 DEF Heads
    <2>3. footer \in [Allocators -> Nat]
      BY DEF MemoryInv, ObjectsTyped
    <2> QED
      BY <1>2, <1>4, <2>2, <2>3
  <1>6. Linked(header) /\ Chained(header, Heads)
    BY DEF MemoryInv, ChainsInv
  <1>7. ChainsInv'
    <2> DEFINE content == [shift |-> s, prev |-> footer[o]]
    <2>1. content.prev = Heads[o] /\ f # 0 /\ f \notin DOMAIN header
      BY <1>2, <1>4 DEF Footers
    <2> HIDE DEF content
    <2>2. Linked(WithFooter(header, f, content))
          /\ Chained(WithFooter(header, f, content), [Heads EXCEPT ![o] = f])
      BY <1>2, <1>6, <2>1, Push
    <2> QED
      BY <1>4, <1>5, <2>2 DEF ChainsInv, content
  <1>8. /\ Footers' = Footers \cup {f}
        /\ \A g \in Footers : BlockAt(g)' = BlockAt(g) /\ Base(g)' = Base(g)
        /\ BlockAt(f)' = [base |-> base, size |-> 2 ^ s] /\ Base(f)' = base
    <2>1. /\ Footers' = Footers \cup {f}
          /\ \A g \in Footers : header'[g] = header[g]
          /\ header'[f].shift = s
      BY <1>4 DEF WithFooter, Footers
    <2>2. \A g \in Footers : BlockAt(g)' = BlockAt(g)
      BY <2>1 DEF BlockAt
    <2>3. BlockAt(f)' = [base |-> f + FooterSize - 2 ^ s, size |-> 2 ^ s]
      BY <2>1 DEF BlockAt
    <2>4. f + FooterSize - 2 ^ s = base
      <3>1. 2 ^ s \in Int
        OBVIOUS
      <3> QED
        BY <1>4, <3>1, FooterAssumption
    <2> QED
      BY <2>1, <2>2, <2>3, <2>4 DEF Base, BaseIn
  <1>9. BlocksInv'
    BY <1>4, <1>8 DEF MemoryInv, BlocksInv
  <1> QED
    BY <1>7, <1>9

\* Different footers are those of different blocks.
LEMMA BlocksDiffer ==
  ASSUME MemoryInv, NEW f \in Footers, NEW g \in Footers, f # g
  PROVE  BlockAt(f) # BlockAt(g)
  <1>1. f \in Nat /\ g \in Nat
    BY DEF MemoryInv, ObjectsTyped
  <1>2. Base(f) \in 1 .. f /\ Base(g) \in 1 .. g
    BY DEF MemoryInv, BlocksInv
  <1>3. f + FooterSize <= Base(g) \/ g + FooterSize <= Base(f)
    BY DEF MemoryInv, BlocksInv
  <1>4. Base(f) # Base(g)
    BY <1>1, <1>2, <1>3, FooterAssumption
  <1> QED
    BY <1>4, BaseIs

\* A block is freed.
LEMMA FreeBlockMemory ==
  ASSUME MemoryInv, FreeBlock
  PROVE  BlocksInv' /\ ChainsInv'
  <1> DEFINE f == releasing.footer
             o == releasing.object
  <1>1. /\ f # 0 /\ header' = WithoutFooter(header, f) /\ blocks' = blocks \ {BlockAt(f)}
        /\ releasing' = [releasing EXCEPT !.footer = header[f].prev] /\ footer' = footer
    BY DEF FreeBlock, WithoutFooter, allocatorVars
  <1>2. releasing # Quiet
    BY <1>1 DEF Quiet
  <1>3. o \in Allocators /\ Heads[o] = f
    BY <1>2, Releasing
  <1>4. Linked(header) /\ Chained(header, Heads)
    BY DEF MemoryInv, ChainsInv
  <1>5. f \in Footers
    BY <1>1, <1>3, <1>4 DEF Chained, Footers
  <1>6. Heads' = [Heads EXCEPT ![o] = header[f].prev]
    <2>1. releasing'.object = o /\ releasing'.footer = header[f].prev
      BY <1>1 DEF MemoryInv, ReleaseInv
    <2> QED
      BY <1>1, <1>3, <2>1 DEF Heads
  <1>7. ChainsInv'
    <2>1. Linked(WithoutFooter(header, Heads[o]))
          /\ Chained(WithoutFooter(header, Heads[o]), [Heads EXCEPT ![o] = header[Heads[o]].prev])
      BY <1>1, <1>3, <1>4, Pop
    <2> QED
      BY <1>1, <1>3, <1>6, <2>1 DEF ChainsInv
  <1>8. /\ Footers' = Footers \ {f}
        /\ \A g \in Footers' : BlockAt(g)' = BlockAt(g) /\ Base(g)' = Base(g)
    <2>1. Footers' = Footers \ {f} /\ \A g \in Footers' : header'[g] = header[g]
      BY <1>1 DEF WithoutFooter, Footers
    <2>2. \A g \in Footers' : BlockAt(g)' = BlockAt(g)
      BY <2>1 DEF BlockAt
    <2> QED
      BY <2>1, <2>2 DEF Base, BaseIn
  <1>9. blocks = {BlockAt(g) : g \in Footers}
    BY DEF MemoryInv, BlocksInv
  <1>10. \A g \in Footers \ {f} : BlockAt(g) # BlockAt(f)
    BY <1>5, BlocksDiffer
  <1>11. blocks' = {BlockAt(g) : g \in Footers \ {f}}
    BY <1>1, <1>9, <1>10
  <1>12. blocks' = {BlockAt(g)' : g \in Footers'}
    BY <1>8, <1>11
  <1>13. BlocksInv'
    BY <1>8, <1>12 DEF MemoryInv, BlocksInv
  <1> QED
    BY <1>7, <1>13

\* The chain of the source becomes that of the object, and the source has none.
LEMMA ReleasedMemory ==
  ASSUME MemoryInv, Released
  PROVE  BlocksInv' /\ ChainsInv'
  <1> DEFINE o == releasing.object
             source == releasing.source
             of(p) == IF source = None THEN p ELSE IF p = o THEN source ELSE IF p = source THEN o ELSE p
  <1>1. /\ releasing # Quiet /\ releasing.footer = 0 /\ releasing' = Quiet
        /\ footer' = Moved(footer, 0) /\ header' = header /\ blocks' = blocks
    BY DEF Released, memoryVars
  <1>2. /\ o \in Allocators /\ source \in Allocators \cup {None} /\ source # o /\ Heads[o] = 0
    BY <1>1, Releasing
  <1>3. footer \in [Allocators -> Nat]
    BY DEF MemoryInv, ObjectsTyped
  <1>4. \A p \in Allocators :
          footer'[p] = IF p = o THEN IF source = None THEN 0 ELSE footer[source]
                       ELSE IF p = source THEN 0 ELSE footer[p]
    <2>1. \A p \in Allocators :
            Moved(footer, 0)[p] =
              IF p = releasing.object THEN IF releasing.source = None THEN 0 ELSE footer[releasing.source]
              ELSE IF p = releasing.source THEN 0 ELSE footer[p]
      BY <1>1, <1>3, MovedIs
    <2> QED
      BY <1>1, <2>1
  <1>5. \A p \in Allocators : Heads'[p] = footer'[p]
    BY <1>1, NoneAssumption DEF Heads, Quiet
  <1>6. \A p \in Allocators : p # o => Heads[p] = footer[p]
    BY DEF Heads
  <1>7. \A p \in Allocators : of(p) \in Allocators /\ Heads'[p] = Heads[of(p)]
    BY <1>2, <1>4, <1>5, <1>6, NoneAssumption
  <1>8. /\ \A p, q \in Allocators : p # q => of(p) # of(q)
        /\ \A p \in Allocators : \E q \in Allocators : of(q) = p
    BY <1>2, NoneAssumption
  <1> HIDE DEF of
  <1>9. Linked(header) /\ Chained(header, Heads)
    BY DEF MemoryInv, ChainsInv
  <1>10. Chained(header, Heads')
    <2>1. Heads' \in [Allocators -> DOMAIN header \cup {0}]
      <3>1. Heads' = [p \in Allocators |-> Heads'[p]]
        BY DEF Heads
      <3>2. \A p \in Allocators : Heads'[p] \in DOMAIN header \cup {0}
        BY <1>7, <1>9 DEF Chained
      <3> QED
        BY <3>1, <3>2
    <2>2. \A f \in DOMAIN header : \E p \in Allocators : f \in ChainIn(header, Heads'[p])
      BY <1>7, <1>8, <1>9 DEF Chained
    <2>3. \A p, q \in Allocators : p # q => ChainIn(header, Heads'[p]) \cap ChainIn(header, Heads'[q]) = {}
      BY <1>7, <1>8, <1>9 DEF Chained
    <2> QED
      BY <1>9, <2>1, <2>2, <2>3 DEF Chained
  <1>11. ChainsInv'
    BY <1>1, <1>9, <1>10 DEF ChainsInv
  <1>12. BlocksInv'
    BY <1>1 DEF MemoryInv, BlocksInv, Footers, Base, BaseIn, BlockAt
  <1> QED
    BY <1>11, <1>12

\* A step of a thread.
LEMMA ThreadMemory ==
  ASSUME MemoryInv, NEW t \in BumpThreads, BumpStep(t)
  PROVE  BlocksInv' /\ ChainsInv'
  <1>1. CASE NewBlock(t)
    BY <1>1, NewBlockMemory
  <1>2. CASE ~ NewBlock(t)
    <2>1. footer' = footer /\ releasing' = releasing /\ memoryVars' = memoryVars
      BY <1>2 DEF BumpStep, LoadCurrentByte, LoadEnd, Bump, Lock, Recheck, StoreCurrent, StoreEnd,
                  BumpNew, allocatorVars, memoryVars
    <2>2. Heads' = Heads
      BY <2>1 DEF Heads
    <2> QED
      BY <2>1, <2>2, MemoryFrame
  <1> QED
    BY <1>1, <1>2

\* Every step keeps the memory.
LEMMA MemoryStep == MemoryInv /\ [BumpNext]_bumpVars => MemoryInv'
  <1> SUFFICES ASSUME MemoryInv, [BumpNext]_bumpVars PROVE MemoryInv'
    OBVIOUS
  <1>1. ASSUME NEW t \in BumpThreads, BumpStep(t) PROVE MemoryInv'
    BY <1>1, ThreadTypes, ThreadMemory DEF MemoryInv
  <1>2. ASSUME NEW t \in BumpThreads, NEW o \in Allocators, NEW request \in Requests,
               AllocateRegion(t, o, request)
        PROVE  MemoryInv'
    <2>1. memoryVars' = memoryVars /\ footer' = footer /\ releasing' = releasing
      BY <1>2 DEF AllocateRegion, allocatorVars
    <2>2. Heads' = Heads
      BY <2>1 DEF Heads
    <2> QED
      BY <1>2, <2>1, <2>2, AllocateTypes, MemoryFrame DEF MemoryInv
  <1>3. ASSUME NEW o \in Allocators, NEW source \in Allocators \cup {None}, o # source,
               Release(o, source)
        PROVE  MemoryInv'
    <2>1. /\ memoryVars' = memoryVars /\ footer' = footer /\ releasing = Quiet
          /\ releasing' = [object |-> o, source |-> source, footer |-> footer[o]]
      BY <1>3 DEF Release, allocatorVars
    <2>2. Heads' = Heads
      BY <2>1, NoneAssumption DEF Heads, Quiet
    <2> QED
      BY <1>3, <2>1, <2>2, ReleaseTypes, MemoryFrame DEF MemoryInv
  <1>4. CASE FreeBlock
    BY <1>4, FreeBlockTypes, FreeBlockMemory DEF MemoryInv
  <1>5. CASE Released
    BY <1>5, ReleasedTypes, ReleasedMemory DEF MemoryInv
  <1>6. CASE UNCHANGED bumpVars
    <2>1. memoryVars' = memoryVars /\ Heads' = Heads
      BY <1>6 DEF bumpVars, allocatorVars, Heads
    <2>2. BlocksInv' /\ ChainsInv'
      BY <2>1, MemoryFrame
    <2>3. ObjectsTyped' /\ ThreadsTyped' /\ RegionsTyped' /\ ReleaseInv'
      BY <1>6 DEF MemoryInv, ObjectsTyped, ThreadsTyped, RegionsTyped, ReleaseInv, Footers,
                  bumpVars, allocatorVars, memoryVars, callVars
    <2> QED
      BY <2>2, <2>3 DEF MemoryInv
  <1> QED
    BY <1>1, <1>2, <1>3, <1>4, <1>5, <1>6 DEF BumpNext

\* The chains of the objects are those that start at their heads.
LEMMA ChainOfIs == \A o \in Allocators : ChainOf(o) = ChainIn(header, Heads[o])
  BY ChainFromIs DEF ChainOf, Heads

LEMMA MemoryInvImpliesExact == MemoryInv => MemoryExact
  <1> SUFFICES ASSUME MemoryInv PROVE MemoryExact
    OBVIOUS
  <1>1. blocks = {BlockAt(f) : f \in Footers} /\ Chained(header, Heads)
    BY DEF MemoryInv, BlocksInv, ChainsInv
  <1>2. \A o \in Allocators : ChainOf(o) = ChainIn(header, Heads[o]) /\ ChainOf(o) \subseteq Footers
    BY ChainOfIs DEF ChainIn, Footers
  <1>3. Footers = UNION {ChainOf(o) : o \in Allocators}
    <2>1. \A f \in Footers : \E o \in Allocators : f \in ChainOf(o)
      BY <1>1, <1>2 DEF Chained, Footers
    <2> QED
      BY <1>2, <2>1
  <1>4. \A o, p \in Allocators : o # p => ChainOf(o) \cap ChainOf(p) = {}
    BY <1>1, <1>2 DEF Chained
  <1> QED
    BY <1>1, <1>3, <1>4 DEF MemoryExact

\* The memory that is allocated is what the chains of the objects lead to, each block
\* by one chain, at every moment of every move and destructor and whatever the
\* threads do (BumpAllocator: newBlock, releaseAllMemory and the move assignment).
THEOREM MemoryIsOwned == BumpSpec => []MemoryExact
  <1>1. BumpSpec => []MemoryInv
    BY MemoryInit, MemoryStep, PTL DEF BumpSpec
  <1> QED
    BY <1>1, MemoryInvImpliesExact, PTL

-----------------------------------------------------------------------------
(* The regions.  A compare_exchange that succeeds finds the current byte   *)
(* that the call had read, so the region is next below the ones handed out *)
(* in that block; that it ends above the lower end of the block follows    *)
(* when the call compared it with the end of the same block.  An object is *)
(* trusted as long as all its calls did.                                   *)

Locked == {"recheck", "storeCurrent", "storeEnd", "bumpNew"}
SlowPathInv ==
  /\ \A t \in BumpThreads : bumpPc[t] \in Locked => slowPathMutex[call[t].object] = t
  /\ \A o \in Allocators : slowPathMutex[o] # None =>
       bumpPc[slowPathMutex[o]] \in Locked /\ call[slowPathMutex[o]].object = o

\* How far the new block of an object is, and the footers of the blocks that its
\* current byte and its end are of.
Stage(o) == IF slowPathMutex[o] = None THEN "idle" ELSE bumpPc[slowPathMutex[o]]
Previous(o) == header[footer[o]].prev
CurrentFooter(o) == IF Stage(o) = "storeCurrent" THEN Previous(o) ELSE footer[o]
EndFooter(o) == IF Stage(o) \in {"storeCurrent", "storeEnd"} THEN Previous(o) ELSE footer[o]

\* OneBlock and Coherent, by the footers.
InBlock(byte, f) == Base(f) <= byte /\ byte <= f
Matched(r) == \E f \in Footers : r.end = Base(f) /\ InBlock(r.current, f)
Trusted(o) == \A r \in regions : r.object = o => Matched(r)

ObjectInv(o) ==
  /\ Stage(o) \in {"storeCurrent", "storeEnd"} => footer[o] # 0
  /\ endByte[o] = IF EndFooter(o) = 0 THEN 0 ELSE Base(EndFooter(o))
  /\ Trusted(o) => IF CurrentFooter(o) = 0 THEN currentByte[o] = 0
                   ELSE InBlock(currentByte[o], CurrentFooter(o))

\* A region was compared with the end of a block of its object; while the object is
\* trusted, the region is in one of them, above the current byte.
Placed(r) ==
  \E g \in ChainIn(header, CurrentFooter(r.object)) :
    /\ Base(g) <= r.at /\ r.at + r.size <= g
    /\ g = CurrentFooter(r.object) => currentByte[r.object] <= r.at
RegionInv(r) ==
  /\ r.object # releasing.object
  /\ r.at % r.alignment = 0
  /\ \E g \in ChainIn(header, footer[r.object]) : r.end = Base(g)
  /\ Trusted(r.object) => Placed(r)

\* What a call has compared, and the block that it puts in place.
CallInv(t) ==
  \A o \in Allocators : o = call[t].object =>
    /\ bumpPc[t] = "bump" =>
         /\ call[t].end \in 1 .. Prospect(t)
         /\ \E g \in ChainIn(header, footer[o]) : call[t].end = Base(g)
    /\ bumpPc[t] \in {"storeCurrent", "storeEnd", "bumpNew"} =>
         /\ footer[o] # 0 /\ call[t].current = footer[o] /\ call[t].end = Base(footer[o])
         /\ call[t].size <= footer[o] /\ Base(footer[o]) <= Prospect(t)

TrustedApart ==
  \A r, s \in regions :
    Trusted(r.object) /\ Trusted(s.object) /\ r.number # s.number => Apart(r, s)

RegionsInv ==
  /\ SlowPathInv
  /\ \A o \in Allocators : o # releasing.object => ObjectInv(o)
  /\ \A r \in regions : RegionInv(r)
  /\ TrustedApart
  /\ \A t \in BumpThreads : CallInv(t)

\* A step of t outside of the slow path, or within it.
LEMMA SlowPathKept ==
  ASSUME MemoryInv, SlowPathInv, NEW t \in BumpThreads, NEW a, a = call[t].object, NEW label \in BumpLabels, BumpGoto(t, label),
         slowPathMutex' = slowPathMutex, \A u \in BumpThreads : u # t => call'[u] = call[u],
         IF bumpPc[t] \in Locked THEN label \in Locked /\ call'[t].object = call[t].object
         ELSE label \notin Locked
  PROVE  /\ SlowPathInv'
         /\ \A o \in Allocators :
              Stage(o)' = IF bumpPc[t] \in Locked /\ o = a THEN label ELSE Stage(o)
  <1>1. /\ bumpPc' = [bumpPc EXCEPT ![t] = label] /\ bumpPc \in [BumpThreads -> BumpLabels]
        /\ slowPathMutex \in [Allocators -> BumpThreads \cup {None}]
        /\ \A u \in BumpThreads : bumpPc[u] \in Locked => call[u].object \in Allocators
    BY DEF BumpGoto, MemoryInv, ObjectsTyped, ThreadsTyped, Locked
  <1>2. \A u \in BumpThreads : bumpPc'[u] = IF u = t THEN label ELSE bumpPc[u]
    BY <1>1
  <1>3. \A u \in BumpThreads : bumpPc'[u] \in Locked => slowPathMutex'[call'[u].object] = u
    BY <1>2 DEF SlowPathInv
  <1>4. \A o \in Allocators : slowPathMutex'[o] # None =>
          bumpPc'[slowPathMutex'[o]] \in Locked /\ call'[slowPathMutex'[o]].object = o
    BY <1>1, <1>2 DEF SlowPathInv
  <1>5. ASSUME NEW o \in Allocators
        PROVE  Stage(o)' = IF bumpPc[t] \in Locked /\ o = a THEN label ELSE Stage(o)
    <2>1. CASE bumpPc[t] \in Locked /\ o = a
      <3>1. slowPathMutex[o] = t /\ t # None
        BY <2>1, NoneAssumption DEF SlowPathInv
      <3> QED
        BY <1>2, <2>1, <3>1 DEF Stage
    <2>2. CASE ~ (bumpPc[t] \in Locked /\ o = a)
      <3>1. slowPathMutex[o] # t
        BY <2>2, NoneAssumption DEF SlowPathInv
      <3>2. slowPathMutex[o] # None => slowPathMutex[o] \in BumpThreads
        BY <1>1
      <3> QED
        BY <1>2, <2>2, <3>1, <3>2 DEF Stage
    <2> QED
      BY <2>1, <2>2
  <1> QED
    BY <1>3, <1>4, <1>5 DEF SlowPathInv

\* The slow path is entered.
LEMMA SlowPathTaken ==
  ASSUME MemoryInv, SlowPathInv, NEW t \in BumpThreads, NEW a, a = call[t].object, Lock(t)
  PROVE  /\ SlowPathInv'
         /\ \A o \in Allocators :
              Stage(o)' = IF o = a THEN "recheck" ELSE Stage(o)
         /\ Stage(a) = "idle"
  <1>1. /\ bumpPc[t] = "lock" /\ bumpPc' = [bumpPc EXCEPT ![t] = "recheck"] /\ call' = call
        /\ slowPathMutex[a] = None /\ slowPathMutex' = [slowPathMutex EXCEPT ![a] = t]
    BY DEF Lock, BumpGoto
  <1>2. /\ bumpPc \in [BumpThreads -> BumpLabels] /\ a \in Allocators
        /\ slowPathMutex \in [Allocators -> BumpThreads \cup {None}]
        /\ \A u \in BumpThreads : bumpPc[u] \in Locked => call[u].object \in Allocators
    BY <1>1 DEF MemoryInv, ObjectsTyped, ThreadsTyped, Locked
  <1>3. /\ \A u \in BumpThreads : bumpPc'[u] = IF u = t THEN "recheck" ELSE bumpPc[u]
        /\ \A o \in Allocators : slowPathMutex'[o] = IF o = a THEN t ELSE slowPathMutex[o]
    BY <1>1, <1>2
  <1>4. "recheck" \in Locked /\ "lock" \notin Locked
    BY DEF Locked
  <1>5. \A u \in BumpThreads : bumpPc'[u] \in Locked => slowPathMutex'[call'[u].object] = u
    BY <1>1, <1>2, <1>3, NoneAssumption DEF SlowPathInv
  <1>6. \A o \in Allocators : slowPathMutex'[o] # None =>
          bumpPc'[slowPathMutex'[o]] \in Locked /\ call'[slowPathMutex'[o]].object = o
    BY <1>1, <1>2, <1>3, <1>4 DEF SlowPathInv
  <1>7. \A o \in Allocators : o # a => Stage(o)' = Stage(o)
    <2>1. \A o \in Allocators : slowPathMutex[o] # t
      BY <1>1, <1>4, NoneAssumption DEF SlowPathInv
    <2> QED
      BY <1>2, <1>3, <2>1 DEF Stage
  <1>8. Stage(a)' = "recheck" /\ Stage(a) = "idle"
    BY <1>1, <1>2, <1>3, NoneAssumption DEF Stage
  <1> QED
    BY <1>5, <1>6, <1>7, <1>8 DEF SlowPathInv

\* The slow path is left.
LEMMA SlowPathLeft ==
  ASSUME MemoryInv, SlowPathInv, NEW t \in BumpThreads, NEW a, a = call[t].object, bumpPc[t] \in Locked,
         NEW label \in BumpLabels \ Locked, BumpGoto(t, label), slowPathMutex' = Unlock(t),
         \A u \in BumpThreads : u # t => call'[u] = call[u]
  PROVE  /\ SlowPathInv'
         /\ \A o \in Allocators : Stage(o)' = IF o = a THEN "idle" ELSE Stage(o)
         /\ Stage(a) = bumpPc[t]
  <1>1. /\ bumpPc' = [bumpPc EXCEPT ![t] = label]
        /\ slowPathMutex[a] = t /\ slowPathMutex' = [slowPathMutex EXCEPT ![a] = None]
    BY DEF BumpGoto, Unlock, SlowPathInv
  <1>2. /\ bumpPc \in [BumpThreads -> BumpLabels] /\ a \in Allocators
        /\ slowPathMutex \in [Allocators -> BumpThreads \cup {None}]
        /\ \A u \in BumpThreads : bumpPc[u] \in Locked => call[u].object \in Allocators
    BY <1>1 DEF MemoryInv, ObjectsTyped, ThreadsTyped, Locked
  <1>3. /\ \A u \in BumpThreads : bumpPc'[u] = IF u = t THEN label ELSE bumpPc[u]
        /\ \A o \in Allocators : slowPathMutex'[o] = IF o = a THEN None ELSE slowPathMutex[o]
    BY <1>1, <1>2
  <1>4. \A u \in BumpThreads : bumpPc'[u] \in Locked => slowPathMutex'[call'[u].object] = u
    BY <1>1, <1>2, <1>3 DEF SlowPathInv
  <1>5. \A o \in Allocators : o # a => slowPathMutex[o] # t
    BY NoneAssumption DEF SlowPathInv
  <1>6. \A o \in Allocators : slowPathMutex'[o] # None =>
          bumpPc'[slowPathMutex'[o]] \in Locked /\ call'[slowPathMutex'[o]].object = o
    BY <1>1, <1>2, <1>3, <1>5 DEF SlowPathInv
  <1>7. \A o \in Allocators : o # a => Stage(o)' = Stage(o)
    BY <1>2, <1>3, <1>5 DEF Stage
  <1>8. Stage(a)' = "idle" /\ Stage(a) = bumpPc[t]
    BY <1>1, <1>2, <1>3, NoneAssumption DEF Stage
  <1> QED
    BY <1>4, <1>6, <1>7, <1>8 DEF SlowPathInv

-----------------------------------------------------------------------------
(* What a step leaves alone.                                               *)

\* The types, in a form that the lemmas below need again and again.
LEMMA Numbers ==
  ASSUME MemoryInv
  PROVE  /\ \A o \in Allocators : currentByte[o] \in Nat /\ endByte[o] \in Nat /\ footer[o] \in Nat
         /\ \A f \in Footers : f \in Nat \ {0} /\ Base(f) \in 1 .. f /\ header[f].prev \in Footers \cup {0}
         /\ \A r \in regions : /\ r.object \in Allocators /\ r.at \in Nat /\ r.size \in Nat
                               /\ r.current \in Nat /\ r.end \in Nat
         /\ Linked(header) /\ 0 \notin Footers
  <1>1. \A o \in Allocators : currentByte[o] \in Nat /\ endByte[o] \in Nat /\ footer[o] \in Nat
    BY DEF MemoryInv, ObjectsTyped
  <1>2. Linked(header)
    BY DEF MemoryInv, ChainsInv
  <1>3. \A f \in Footers : f \in Nat \ {0} /\ Base(f) \in 1 .. f /\ header[f].prev \in Footers \cup {0}
    BY <1>2 DEF MemoryInv, ObjectsTyped, BlocksInv, Linked, Footers
  <1>4. \A r \in regions : /\ r.object \in Allocators /\ r.at \in Nat /\ r.size \in Nat
                           /\ r.current \in Nat /\ r.end \in Nat
    BY DEF MemoryInv, RegionsTyped, Regions
  <1> QED
    BY <1>1, <1>2, <1>3, <1>4 DEF Linked, Footers

\* A byte is in one block only, and no two blocks have the same lower end.
LEMMA OneFooter ==
  ASSUME MemoryInv, NEW f \in Footers, NEW g \in Footers
  PROVE  /\ Base(f) = Base(g) => f = g
         /\ \A byte \in Nat : InBlock(byte, f) /\ InBlock(byte, g) => f = g
  <1>1. /\ f \in Nat \ {0} /\ Base(f) \in 1 .. f
        /\ g \in Nat \ {0} /\ Base(g) \in 1 .. g
    BY Numbers
  <1>2. f # g => f + FooterSize <= Base(g) \/ g + FooterSize <= Base(f)
    BY DEF MemoryInv, BlocksInv
  <1> QED
    BY <1>1, <1>2, FooterAssumption DEF InBlock

\* The footers of an object are on its chain.
LEMMA FootersOf ==
  ASSUME MemoryInv, NEW o \in Allocators, o # releasing.object, ObjectInv(o)
  PROVE  /\ footer[o] \in Footers \cup {0} /\ Heads[o] = footer[o]
         /\ CurrentFooter(o) \in Footers \cup {0}
         /\ EndFooter(o) \in ChainIn(header, footer[o]) \cup {0}
         /\ footer[o] # 0 => Previous(o) \in Footers \cup {0}
         /\ ChainIn(header, CurrentFooter(o)) \subseteq ChainIn(header, footer[o])
  <1>1. Heads[o] = footer[o]
    BY DEF Heads
  <1>2. Linked(header) /\ Chained(header, Heads)
    BY DEF MemoryInv, ChainsInv
  <1>3. footer[o] \in Footers \cup {0}
    BY <1>1, <1>2 DEF Chained, Footers
  <1>4. footer[o] # 0 =>
          /\ Previous(o) \in Footers \cup {0}
          /\ ChainIn(header, footer[o]) = {footer[o]} \cup ChainIn(header, Previous(o))
    BY <1>2, <1>3, ChainStep DEF Previous, Linked, Footers
  <1>5. \A f \in Footers : f \in ChainIn(header, f)
    BY <1>2, ChainStep DEF Footers
  <1>6. Stage(o) \in {"storeCurrent", "storeEnd"} => footer[o] # 0
    BY DEF ObjectInv
  <1>7. CurrentFooter(o) \in Footers \cup {0}
    BY <1>3, <1>4, <1>6 DEF CurrentFooter
  <1>8. EndFooter(o) \in ChainIn(header, footer[o]) \cup {0}
    <2>1. CASE EndFooter(o) = footer[o]
      BY <1>3, <1>5, <2>1
    <2>2. CASE EndFooter(o) # footer[o]
      <3>1. EndFooter(o) = Previous(o) /\ footer[o] # 0
        BY <1>6, <2>2 DEF EndFooter
      <3> QED
        BY <1>4, <1>5, <3>1
    <2> QED
      BY <2>1, <2>2
  <1>9. ChainIn(header, CurrentFooter(o)) \subseteq ChainIn(header, footer[o])
    BY <1>4, <1>6 DEF CurrentFooter
  <1> QED
    BY <1>1, <1>3, <1>4, <1>7, <1>8, <1>9

\* No footer goes and none changes.
HeaderKept ==
  /\ \A f \in Footers : f \in Footers' /\ header'[f] = header[f] /\ BaseIn(header', f) = BaseIn(header, f)
  /\ \A f \in Footers \cup {0} : ChainIn(header', f) = ChainIn(header, f)

LEMMA HeaderIsKept ==
  ASSUME MemoryInv, NEW t \in BumpThreads, header' = header \/ NewBlock(t)
  PROVE  HeaderKept
  <1>1. CASE header' = header
    BY <1>1 DEF HeaderKept, Footers, BaseIn
  <1>2. CASE NewBlock(t)
    <2> DEFINE o == call[t].object
    <2>1. PICK s \in Nat, base \in Nat \ {0}, f \in Nat \ {0} : NewBlockAs(t, s, base, f)
      BY <1>2, NewBlockIs
    <2> DEFINE content == [shift |-> s, prev |-> footer[o]]
    <2>2. header' = WithFooter(header, f, content) /\ f \notin DOMAIN header /\ f # 0
      BY <2>1 DEF NewBlockAs, Footers
    <2>3. content.prev \in DOMAIN header \cup {0}
      <3>1. bumpPc[t] # "idle"
        BY <1>2 DEF NewBlock
      <3>2. o \in Allocators /\ Heads = footer
        BY <3>1, InCallQuiet
      <3> QED
        BY <3>2 DEF MemoryInv, ChainsInv, Chained
    <2>4. Linked(header)
      BY DEF MemoryInv, ChainsInv
    <2> HIDE DEF content
    <2>5. FreshIn(header, f, content, header')
      BY <2>2, <2>3, <2>4, FreshFooter
    <2> QED
      BY <2>5 DEF FreshIn, HeaderKept, Footers, BaseIn
  <1> QED
    BY <1>1, <1>2

\* An object that is trusted after a step was so before it, unless regions go.
TrustKept(o) == Trusted(o)' => Trusted(o)
LEMMA TrustIsKept ==
  ASSUME MemoryInv, MemoryInv', RegionsInv, HeaderKept, regions \subseteq regions', NEW o \in Allocators
  PROVE  TrustKept(o)
  <1> SUFFICES ASSUME Trusted(o)', NEW r \in regions, r.object = o
               PROVE  Matched(r)
    BY DEF TrustKept, Trusted
  <1>1. PICK f \in DOMAIN header' : r.end = BaseIn(header', f)
                                    /\ BaseIn(header', f) <= r.current /\ r.current <= f
    BY DEF Trusted, Matched, InBlock, Base, Footers
  <1>2. PICK g \in Footers : r.end = Base(g)
    BY DEF RegionsInv, RegionInv, ChainIn, Footers
  <1>3. g \in DOMAIN header' /\ BaseIn(header', g) = BaseIn(header, g)
    BY DEF HeaderKept, Footers
  <1>4. ASSUME NEW h \in DOMAIN header', NEW k \in DOMAIN header',
               BaseIn(header', h) = BaseIn(header', k)
        PROVE  h = k
    <2>1. /\ h \in Nat \ {0} /\ BaseIn(header', h) \in 1 .. h
          /\ k \in Nat \ {0} /\ BaseIn(header', k) \in 1 .. k
      BY DEF MemoryInv, ObjectsTyped, BlocksInv, Base, Footers
    <2>2. h # k => h + FooterSize <= BaseIn(header', k) \/ k + FooterSize <= BaseIn(header', h)
      BY DEF MemoryInv, BlocksInv, Base, Footers
    <2> QED
      BY <1>4, <2>1, <2>2, FooterAssumption
  <1>5. f = g
    BY <1>1, <1>2, <1>3, <1>4 DEF Base
  <1> QED
    BY <1>1, <1>2, <1>3, <1>5 DEF Matched, InBlock, Base

\* Putting a new block in place for an object does not begin and does not go on.
StageKept(o) ==
  Stage(o)' \in {"storeCurrent", "storeEnd"} \/ Stage(o) \in {"storeCurrent", "storeEnd"}
    => Stage(o)' = Stage(o)

\* The blocks of an object stay blocks of it.
ChainKept(o) == ChainIn(header, footer[o]) \subseteq ChainIn(header', footer'[o])

\* The blocks of an object that a step does not touch.
LEMMA FootersFrame ==
  ASSUME MemoryInv, HeaderKept, NEW o \in Allocators, o # releasing.object, ObjectInv(o),
         StageKept(o), footer'[o] = footer[o]
  PROVE  /\ CurrentFooter(o)' = CurrentFooter(o) /\ EndFooter(o)' = EndFooter(o)
         /\ Stage(o)' \in {"storeCurrent", "storeEnd"} => footer'[o] # 0
         /\ \A f \in {CurrentFooter(o), EndFooter(o)} \ {0} : BaseIn(header', f) = BaseIn(header, f)
         /\ ChainKept(o)
  <1>1. footer[o] \in Footers \cup {0} /\ footer[o] # 0 => Previous(o)' = Previous(o)
    BY FootersOf DEF HeaderKept, Previous
  <1>2. Stage(o) \in {"storeCurrent", "storeEnd"} => footer[o] # 0
    BY DEF ObjectInv
  <1>3. CurrentFooter(o)' = CurrentFooter(o) /\ EndFooter(o)' = EndFooter(o)
    BY <1>1, <1>2, FootersOf DEF CurrentFooter, EndFooter, StageKept
  <1>4. CurrentFooter(o) \in Footers \cup {0} /\ EndFooter(o) \in Footers \cup {0}
    BY FootersOf DEF ChainIn, Footers
  <1>5. Stage(o)' \in {"storeCurrent", "storeEnd"} => footer'[o] # 0
    BY <1>2 DEF StageKept
  <1>6. ChainKept(o)
    BY FootersOf DEF ChainKept, HeaderKept
  <1> QED
    BY <1>3, <1>4, <1>5, <1>6 DEF HeaderKept

\* An object that a step does not touch.
LEMMA ObjectFrame ==
  ASSUME MemoryInv, HeaderKept, NEW o \in Allocators, o # releasing.object, ObjectInv(o),
         StageKept(o), TrustKept(o), footer'[o] = footer[o],
         currentByte'[o] = currentByte[o], endByte'[o] = endByte[o]
  PROVE  ObjectInv(o)' /\ CurrentFooter(o)' = CurrentFooter(o) /\ ChainKept(o)
  <1> DEFINE f == CurrentFooter(o)
             e == EndFooter(o)
  <1>1. /\ CurrentFooter(o)' = f /\ EndFooter(o)' = e /\ ChainKept(o)
        /\ Stage(o)' \in {"storeCurrent", "storeEnd"} => footer'[o] # 0
        /\ f # 0 => BaseIn(header', f) = BaseIn(header, f)
        /\ e # 0 => BaseIn(header', e) = BaseIn(header, e)
    BY FootersFrame
  <1>2. endByte'[o] = IF e = 0 THEN 0 ELSE BaseIn(header', e)
    BY <1>1 DEF ObjectInv, Base
  <1>3. Trusted(o)' => IF f = 0 THEN currentByte'[o] = 0
                       ELSE BaseIn(header', f) <= currentByte'[o] /\ currentByte'[o] <= f
    BY <1>1 DEF ObjectInv, InBlock, Base, TrustKept
  <1> HIDE DEF f, e
  <1> QED
    BY <1>1, <1>2, <1>3 DEF ObjectInv, InBlock, Base, f, e

\* A region that a caller goes on holding, while the current byte only goes down.
LEMMA RegionFrame ==
  ASSUME MemoryInv, HeaderKept, NEW r \in regions, RegionInv(r), ObjectInv(r.object),
         releasing' = releasing, NEW o \in Allocators, o = r.object, TrustKept(o), ChainKept(o),
         CurrentFooter(o)' = CurrentFooter(o),
         Trusted(o)' => currentByte'[o] <= currentByte[o], currentByte'[o] \in Nat
  PROVE  RegionInv(r)'
  <1> DEFINE f == CurrentFooter(o)
  <1>1. o # releasing.object /\ r.at % r.alignment = 0
    BY DEF RegionInv
  <1>2. \A g \in Footers : BaseIn(header', g) = BaseIn(header, g)
    BY DEF HeaderKept
  <1>3. \E g \in ChainIn(header', footer'[o]) : r.end = BaseIn(header', g)
    <2>1. PICK g \in ChainIn(header, footer[o]) : r.end = Base(g)
      BY DEF RegionInv
    <2>2. g \in Footers /\ g \in ChainIn(header', footer'[o])
      BY DEF ChainIn, Footers, ChainKept
    <2> QED
      BY <1>2, <2>1, <2>2 DEF Base
  <1>4. ASSUME Trusted(o)' PROVE Placed(r)'
    <2>1. PICK g \in ChainIn(header, f) :
            /\ Base(g) <= r.at /\ r.at + r.size <= g
            /\ g = f => currentByte[o] <= r.at
      BY <1>4 DEF RegionInv, Placed, TrustKept
    <2>2. f \in Footers \cup {0}
      BY <1>1, FootersOf
    <2>3. g \in Footers
      BY DEF ChainIn, Footers
    <2>4. ChainIn(header', f) = ChainIn(header, f) /\ BaseIn(header', g) = BaseIn(header, g)
      BY <2>2, <2>3 DEF HeaderKept
    <2>5. currentByte[o] \in Nat /\ r.at \in Nat
      BY Numbers
    <2>6. g = f => currentByte'[o] <= r.at
      BY <1>4, <2>1, <2>5
    <2>7. CurrentFooter(r.object)' = f
      BY DEF f
    <2> HIDE DEF f
    <2> QED
      BY <2>1, <2>4, <2>6, <2>7 DEF Placed, Base
  <1> QED
    BY <1>1, <1>3, <1>4 DEF RegionInv, Base

\* A call that waits while others step.
LEMMA CallFrame ==
  ASSUME MemoryInv, HeaderKept, NEW t \in BumpThreads, CallInv(t),
         call'[t] = call[t], bumpPc'[t] = bumpPc[t],
         \A o \in Allocators : o = call[t].object =>
           /\ ChainKept(o)
           /\ bumpPc[t] \in {"storeCurrent", "storeEnd", "bumpNew"} =>
                footer'[o] = footer[o] /\ footer[o] \in Footers \cup {0}
  PROVE  CallInv(t)'
  <1> SUFFICES ASSUME NEW o \in Allocators, o = call'[t].object
               PROVE  /\ bumpPc'[t] = "bump" =>
                           /\ call'[t].end \in 1 .. Prospect(t)'
                           /\ \E g \in ChainIn(header', footer'[o]) : call'[t].end = BaseIn(header', g)
                      /\ bumpPc'[t] \in {"storeCurrent", "storeEnd", "bumpNew"} =>
                           /\ footer'[o] # 0 /\ call'[t].current = footer'[o]
                           /\ call'[t].end = BaseIn(header', footer'[o])
                           /\ call'[t].size <= footer'[o] /\ BaseIn(header', footer'[o]) <= Prospect(t)'
    BY DEF CallInv, Base
  <1>1. Prospect(t)' = Prospect(t)
    BY DEF Prospect
  <1>2. CASE bumpPc[t] = "bump"
    <2>1. call[t].end \in 1 .. Prospect(t)
      BY <1>2 DEF CallInv
    <2>2. PICK g \in ChainIn(header, footer[o]) : call[t].end = Base(g)
      BY <1>2 DEF CallInv
    <2>3. g \in Footers /\ g \in ChainIn(header', footer'[o])
      BY DEF ChainIn, Footers, ChainKept
    <2>4. BaseIn(header', g) = BaseIn(header, g)
      BY <2>3 DEF HeaderKept
    <2> QED
      BY <1>1, <1>2, <2>1, <2>2, <2>3, <2>4 DEF Base
  <1>3. CASE bumpPc[t] \in {"storeCurrent", "storeEnd", "bumpNew"}
    <2>1. /\ footer[o] # 0 /\ call[t].current = footer[o] /\ call[t].end = BaseIn(header, footer[o])
          /\ call[t].size <= footer[o] /\ BaseIn(header, footer[o]) <= Prospect(t)
      BY <1>3 DEF CallInv, Base
    <2>2. footer'[o] = footer[o] /\ footer[o] \in Footers
      BY <1>3, <2>1
    <2>3. BaseIn(header', footer[o]) = BaseIn(header, footer[o])
      BY <2>2 DEF HeaderKept
    <2> QED
      BY <1>1, <1>3, <2>1, <2>2, <2>3
  <1> QED
    BY <1>2, <1>3

-----------------------------------------------------------------------------
(* Every step keeps the regions.                                           *)

\* While a thread is in a call, the invariant is about all objects.
LEMMA AllObjects ==
  ASSUME MemoryInv, RegionsInv, releasing = Quiet
  PROVE  \A o \in Allocators : o # releasing.object /\ ObjectInv(o)
  BY NoneAssumption DEF RegionsInv, Quiet

\* What was handed out before stays apart.
LEMMA ApartKept ==
  ASSUME MemoryInv, RegionsInv, regions' \subseteq regions,
         \A r \in regions' : TrustKept(r.object)
  PROVE  TrustedApart'
  BY DEF RegionsInv, TrustedApart, TrustKept, Apart

\* The step of one call that leaves the regions and the other calls alone: what is to
\* be shown is about its object and itself.
LEMMA CallStep ==
  ASSUME MemoryInv, MemoryInv', RegionsInv, releasing = Quiet, NEW t \in BumpThreads,
         NEW o \in Allocators, o = call[t].object,
         HeaderKept, UNCHANGED <<regions, releasing>>, SlowPathInv',
         \A p \in Allocators : p # o =>
           /\ StageKept(p) /\ footer'[p] = footer[p]
           /\ currentByte'[p] = currentByte[p] /\ endByte'[p] = endByte[p],
         \A u \in BumpThreads : u # t => call'[u] = call[u] /\ bumpPc'[u] = bumpPc[u],
         bumpPc[t] \in Locked \/ footer'[o] = footer[o],
         ChainKept(o), ObjectInv(o)', CallInv(t)',
         \A r \in regions : r.object = o => RegionInv(r)'
  PROVE  RegionsInv'
  <1>1. \A p \in Allocators : p # releasing.object /\ ObjectInv(p) /\ TrustKept(p)
    BY AllObjects, TrustIsKept
  <1>2. ASSUME NEW p \in Allocators, p # o
        PROVE  ObjectInv(p)' /\ CurrentFooter(p)' = CurrentFooter(p) /\ ChainKept(p)
    BY <1>1, <1>2, ObjectFrame
  <1>3. ASSUME NEW r \in regions PROVE RegionInv(r)'
    <2>1. RegionInv(r) /\ r.object \in Allocators
      BY Numbers DEF RegionsInv
    <2>2. CASE r.object # o
      <3>1. currentByte'[r.object] = currentByte[r.object] /\ currentByte[r.object] \in Nat
        BY <2>1, <2>2, Numbers
      <3> QED
        BY <1>1, <1>2, <2>1, <2>2, <3>1, RegionFrame
    <2> QED
      BY <2>2
  <1>4. ASSUME NEW u \in BumpThreads PROVE CallInv(u)'
    <2>1. CASE u # t
      <3>1. CallInv(u) /\ call'[u] = call[u] /\ bumpPc'[u] = bumpPc[u]
        BY <2>1 DEF RegionsInv
      <3>2. ASSUME NEW p \in Allocators, p = call[u].object
            PROVE  /\ ChainKept(p)
                   /\ bumpPc[u] \in {"storeCurrent", "storeEnd", "bumpNew"} =>
                        footer'[p] = footer[p] /\ footer[p] \in Footers \cup {0}
        <4>1. footer[p] \in Footers \cup {0}
          BY <1>1, FootersOf
        <4>2. CASE p # o
          BY <1>2, <4>1, <4>2
        <4>3. CASE p = o
          <5>0. \A v \in BumpThreads : bumpPc[v] \in Locked => slowPathMutex[call[v].object] = v
            BY DEF RegionsInv, SlowPathInv
          <5>1. bumpPc[t] \in Locked => slowPathMutex[o] = t
            BY <5>0
          <5>2. bumpPc[u] \in Locked => slowPathMutex[o] = u
            BY <3>2, <4>3, <5>0
          <5>3. bumpPc[u] \in {"storeCurrent", "storeEnd", "bumpNew"} => bumpPc[u] \in Locked
            BY DEF Locked
          <5> QED
            BY <2>1, <4>1, <4>3, <5>1, <5>2, <5>3
        <4> QED
          BY <4>2, <4>3
      <3> QED
        BY <1>1, <3>1, <3>2, CallFrame
    <2> QED
      BY <2>1
  <1>5. TrustedApart'
    <2>1. \A r \in regions : r.object \in Allocators
      BY Numbers
    <2> QED
      BY <1>1, <2>1, ApartKept
  <1> QED
    BY <1>1, <1>2, <1>3, <1>4, <1>5 DEF RegionsInv

\* A step of a call that changes neither the objects nor the regions.
LEMMA QuietStep ==
  ASSUME MemoryInv, MemoryInv', RegionsInv, releasing = Quiet, NEW t \in BumpThreads,
         UNCHANGED <<endByte, currentByte, footer, memoryVars, regions, releasing>>,
         SlowPathInv', \A o \in Allocators : StageKept(o),
         \A u \in BumpThreads : u # t => call'[u] = call[u] /\ bumpPc'[u] = bumpPc[u],
         CallInv(t)'
  PROVE  RegionsInv'
  <1>1. HeaderKept
    BY DEF HeaderKept, Footers, BaseIn, memoryVars
  <1>2. \A o \in Allocators : o # releasing.object /\ ObjectInv(o) /\ TrustKept(o)
    BY <1>1, AllObjects, TrustIsKept
  <1>3. \A o \in Allocators : ObjectInv(o)' /\ CurrentFooter(o)' = CurrentFooter(o) /\ ChainKept(o)
    BY <1>1, <1>2, ObjectFrame
  <1>4. ASSUME NEW r \in regions PROVE RegionInv(r)'
    <2>1. RegionInv(r) /\ r.object \in Allocators
      BY Numbers DEF RegionsInv
    <2>2. currentByte'[r.object] \in Nat /\ currentByte'[r.object] = currentByte[r.object]
      BY <2>1, Numbers
    <2> QED
      BY <1>1, <1>2, <1>3, <2>1, <2>2, RegionFrame
  <1>5. ASSUME NEW u \in BumpThreads, u # t PROVE CallInv(u)'
    <2>1. CallInv(u) /\ call'[u] = call[u] /\ bumpPc'[u] = bumpPc[u]
      BY <1>5 DEF RegionsInv
    <2>2. \A o \in Allocators : ChainKept(o) /\ footer'[o] = footer[o] /\ footer[o] \in Footers \cup {0}
      BY <1>2, <1>3, FootersOf
    <2> QED
      BY <1>1, <2>1, <2>2, CallFrame
  <1>6. TrustedApart'
    <2>1. \A r \in regions : r.object \in Allocators
      BY Numbers
    <2> QED
      BY <1>2, <2>1, ApartKept
  <1> QED
    BY <1>3, <1>4, <1>5, <1>6 DEF RegionsInv

\* What lies in different blocks, or on the two sides of the current byte, is disjoint.
LEMMA NewRegionApart ==
  ASSUME MemoryInv, RegionsInv, releasing = Quiet, NEW o \in Allocators, Trusted(o),
         NEW at \in Nat, NEW size \in Nat, NEW f, f = CurrentFooter(o), f # 0,
         Base(f) <= at, at + size <= currentByte[o],
         NEW s \in regions, Trusted(s.object)
  PROVE  at + size <= s.at \/ s.at + s.size <= at
  <1>1. \A p \in Allocators : p # releasing.object /\ ObjectInv(p)
    BY AllObjects
  <1>2. f \in Footers /\ ChainIn(header, f) \subseteq ChainIn(header, Heads[o])
    BY <1>1, FootersOf
  <1>3. currentByte[o] <= f /\ currentByte[o] \in Nat /\ f \in Nat \ {0} /\ Base(f) \in 1 .. f
    <2>1. f \in Nat \ {0} /\ Base(f) \in 1 .. f
      BY <1>2, Numbers
    <2>2. InBlock(currentByte[o], f)
      BY <1>1 DEF ObjectInv
    <2> QED
      BY <2>1, <2>2, Numbers DEF InBlock
  <1>4. RegionInv(s) /\ s.object \in Allocators /\ s.at \in Nat /\ s.size \in Nat
    BY Numbers DEF RegionsInv
  <1>5. PICK g \in ChainIn(header, CurrentFooter(s.object)) :
          /\ Base(g) <= s.at /\ s.at + s.size <= g
          /\ g = CurrentFooter(s.object) => currentByte[s.object] <= s.at
    BY <1>4 DEF RegionInv, Placed
  <1>6. ChainIn(header, CurrentFooter(s.object)) \subseteq ChainIn(header, Heads[s.object])
    BY <1>1, <1>4, FootersOf
  <1>7. g \in Footers /\ g \in Nat \ {0} /\ Base(g) \in 1 .. g
    BY <1>5, Numbers DEF ChainIn, Footers
  <1>8. CASE g = f
    <2>1. f \in ChainIn(header, Heads[o])
      <3>1. Linked(header)
        BY Numbers
      <3>2. f \in ChainIn(header, f)
        BY <1>2, <3>1, ChainStep DEF Footers
      <3> QED
        BY <1>2, <3>2
    <2>2. s.object = o
      BY <1>4, <1>5, <1>6, <1>8, <2>1 DEF MemoryInv, ChainsInv, Chained
    <2>3. currentByte[o] <= s.at
      BY <1>5, <1>8, <2>2
    <2> QED
      BY <1>3, <1>4, <2>3
  <1>9. CASE g # f
    <2>1. g + FooterSize <= Base(f) \/ f + FooterSize <= Base(g)
      BY <1>2, <1>7, <1>9 DEF MemoryInv, BlocksInv
    <2> QED
      BY <1>3, <1>4, <1>5, <1>7, <2>1, FooterAssumption
  <1> QED
    BY <1>8, <1>9

\* A region is handed out, next below the current byte that the call had read.
LEMMA HandOutRegions ==
  ASSUME MemoryInv, RegionsInv, releasing = Quiet, NEW t \in BumpThreads, bumpPc[t] # "idle",
         HandOut(t), UNCHANGED <<endByte, footer, memoryVars, releasing>>,
         SlowPathInv', \A p \in Allocators : StageKept(p),
         NEW o \in Allocators, o = call[t].object, BumpSucceeds(t),
         call[t].end \in 1 .. Prospect(t),
         \E g \in ChainIn(header, footer[o]) : call[t].end = Base(g)
  PROVE  RegionsInv'
  <1> DEFINE f == CurrentFooter(o)
             at == Prospect(t)
             size == call[t].size
             new == [object |-> o, number |-> call[t].number, at |-> at,
                     alignment |-> call[t].alignment, size |-> size,
                     current |-> call[t].current, end |-> call[t].end]
  <1>1. HeaderKept /\ header' = header
    BY DEF HeaderKept, Footers, BaseIn, memoryVars
  <1>2. \A p \in Allocators : p # releasing.object /\ ObjectInv(p)
    BY AllObjects
  <1>3. /\ currentByte' = [currentByte EXCEPT ![o] = at] /\ regions' = regions \cup {new}
        /\ call' = [call EXCEPT ![t] = NoCall] /\ bumpPc' = [bumpPc EXCEPT ![t] = "idle"]
    BY DEF HandOut, BumpGoto
  <1>4. currentByte[o] = call[t].current
    BY DEF BumpSucceeds
  <1>5. /\ at \in Nat /\ size \in Nat /\ at % call[t].alignment = 0 /\ at + size <= currentByte[o]
        /\ at >= 1
    <2>1. call[t] \in Calls /\ at \in Nat /\ at % call[t].alignment = 0
      BY ProspectIs DEF MemoryInv, ThreadsTyped
    <2>2. size \in Nat /\ call[t].current \in Nat /\ call[t].end \in Nat
      BY <2>1 DEF Calls
    <2>3. at >= 1
      BY <2>1, <2>2
    <2>4. size > call[t].current => at = 0
      BY DEF Prospect, GetAlloc
    <2>5. size <= call[t].current
      BY <2>2, <2>3, <2>4
    <2> QED
      BY <1>4, <2>1, <2>2, <2>3, <2>5, ProspectIs
  <1>6. /\ \A p \in Allocators : currentByte'[p] = IF p = o THEN at ELSE currentByte[p]
        /\ currentByte[o] \in Nat
    BY <1>3 DEF MemoryInv, ObjectsTyped
  <1>7. PICK g \in ChainIn(header, footer[o]) : call[t].end = Base(g)
    OBVIOUS
  <1>8. g \in Footers /\ Base(g) <= at
    BY <1>5, <1>7 DEF ChainIn, Footers
  <1> HIDE DEF at
  <1>9. \A p \in Allocators : TrustKept(p)
    <2>1. \A r : Matched(r)' <=> Matched(r)
      BY <1>1 DEF Matched, InBlock, Base, Footers
    <2> QED
      BY <1>3, <2>1 DEF TrustKept, Trusted
  \* While the object is trusted, the block of the end is that of the current byte.
  <1>10. Trusted(o)' =>
           f \in Footers /\ f # 0 /\ InBlock(currentByte[o], f) /\ Base(f) <= at /\ Trusted(o)
    <2> SUFFICES ASSUME Trusted(o)' PROVE f = g /\ InBlock(currentByte[o], f) /\ g # 0 /\ Trusted(o)
      BY <1>8
    <2>0. new \in regions' /\ new.object = o /\ new.current = currentByte[o] /\ new.end = call[t].end
      BY <1>3, <1>4
    <2> HIDE DEF new
    <2>1. PICK r \in regions' :
            r.object = o /\ r.current = currentByte[o] /\ r.end = call[t].end
      BY <2>0
    <2>2. Matched(r)'
      BY <2>1 DEF Trusted
    <2>3. PICK h \in Footers : Base(h) = Base(g) /\ InBlock(currentByte[o], h)
      BY <1>1, <1>7, <2>1, <2>2 DEF Matched, InBlock, Base, Footers
    <2>4. h = g /\ g # 0
      BY <1>8, <2>3, OneFooter, Numbers
    <2>5. Trusted(o)
      BY <1>9 DEF TrustKept
    <2>6. f # 0 /\ InBlock(currentByte[o], f)
      BY <1>2, <1>5, <1>6, <2>5 DEF ObjectInv
    <2>7. f \in Footers
      BY <1>2, <2>6, FootersOf
    <2> QED
      BY <1>6, <1>8, <2>3, <2>4, <2>5, <2>6, <2>7, OneFooter
  <1>11. \A p \in Allocators : /\ CurrentFooter(p)' = CurrentFooter(p) /\ EndFooter(p)' = EndFooter(p)
                               /\ ChainKept(p) /\ footer[p] \in Footers \cup {0}
                               /\ Stage(p)' \in {"storeCurrent", "storeEnd"} => footer'[p] # 0
    BY <1>1, <1>2, FootersFrame, FootersOf
  <1>12. ASSUME NEW p \in Allocators PROVE ObjectInv(p)'
    <2>1. CASE p # o
      BY <1>1, <1>2, <1>6, <1>9, <2>1, ObjectFrame
    <2>2. CASE p = o
      <3>1. endByte'[o] = IF EndFooter(o)' = 0 THEN 0 ELSE BaseIn(header', EndFooter(o)')
        BY <1>1, <1>2, <1>11 DEF ObjectInv, Base
      <3>2. Trusted(o)' => f # 0 /\ BaseIn(header', f) <= currentByte'[o] /\ currentByte'[o] <= f
        <4> SUFFICES ASSUME Trusted(o)'
                     PROVE  f # 0 /\ Base(f) <= at /\ at <= f
          BY <1>1, <1>6 DEF Base
        <4>1. f \in Nat /\ currentByte[o] <= f
          BY <1>10, Numbers DEF InBlock
        <4> QED
          BY <1>5, <1>6, <1>10, <4>1
      <3>3. CurrentFooter(o)' = f
        BY <1>11
      <3> HIDE DEF f
      <3> QED
        BY <1>11, <2>2, <3>1, <3>2, <3>3 DEF ObjectInv, InBlock, Base
    <2> QED
      BY <2>1, <2>2
  <1>13. ASSUME NEW r \in regions PROVE RegionInv(r)'
    <2>1. RegionInv(r) /\ r.object \in Allocators
      BY Numbers DEF RegionsInv
    <2>2. currentByte'[r.object] \in Nat /\ currentByte'[r.object] <= currentByte[r.object]
      <3>1. currentByte[r.object] \in Nat
        BY <2>1, Numbers
      <3> QED
        BY <1>5, <1>6, <2>1, <3>1
    <2> QED
      BY <1>1, <1>2, <1>9, <1>11, <2>1, <2>2, RegionFrame
  <1>14. ASSUME NEW n, n = new PROVE RegionInv(n)'
    <2>1. /\ n.object = o /\ n.at = at /\ n.size = size /\ n.alignment = call[t].alignment
          /\ n.end = call[t].end
      BY <1>14
    <2>2. o # releasing'.object
      BY <1>2
    <2>3. \E h \in ChainIn(header', footer'[o]) : n.end = BaseIn(header', h)
      BY <1>1, <1>7, <2>1 DEF Base
    <2>4. ASSUME Trusted(o)' PROVE Placed(n)'
      <3>1. f \in ChainIn(header', f)
        BY <1>1, <1>10, <2>4, Numbers, ChainStep DEF Footers
      <3>2. f \in Nat /\ currentByte[o] <= f
        BY <1>10, <2>4, Numbers DEF InBlock
      <3>3. /\ BaseIn(header', f) <= at /\ at + size <= f /\ currentByte'[o] <= at
        BY <1>1, <1>5, <1>6, <1>10, <2>4, <3>2 DEF Base
      <3>4. CurrentFooter(n.object)' = f
        BY <1>11, <2>1
      <3> HIDE DEF new, f, size
      <3> QED
        BY <2>1, <3>1, <3>3, <3>4 DEF Placed, Base
    <2> HIDE DEF new, f, size
    <2> QED
      BY <1>5, <2>1, <2>2, <2>3, <2>4 DEF RegionInv, Base
  <1>15. TrustedApart'
    <2>1. ASSUME NEW r \in regions, Trusted(o)', Trusted(r.object)'
          PROVE  Apart(new, r) /\ Apart(r, new)
      <3>1. r.object \in Allocators
        BY Numbers
      <3>2. Trusted(o) /\ Trusted(r.object)
        BY <1>9, <2>1, <3>1 DEF TrustKept
      <3>3. f # 0 /\ Base(f) <= at
        BY <1>10, <2>1
      <3>4. at + size <= r.at \/ r.at + r.size <= at
        BY <1>5, <3>2, <3>3, NewRegionApart
      <3> QED
        BY <3>4 DEF Apart
    <2>2. ASSUME NEW r \in regions, NEW s \in regions, Trusted(r.object)', Trusted(s.object)',
                 r.number # s.number
          PROVE  Apart(r, s)
      <3>1. r.object \in Allocators /\ s.object \in Allocators
        BY Numbers
      <3> QED
        BY <1>9, <2>2, <3>1 DEF TrustKept, RegionsInv, TrustedApart
    <2>3. new.object = o
      OBVIOUS
    <2> HIDE DEF new
    <2> QED
      BY <1>3, <2>1, <2>2, <2>3 DEF TrustedApart, Apart
  <1>16. ASSUME NEW u \in BumpThreads PROVE CallInv(u)'
    <2>1. CASE u = t
      <3>1. bumpPc'[t] = "idle"
        BY <1>3 DEF MemoryInv, ThreadsTyped
      <3> QED
        BY <2>1, <3>1 DEF CallInv
    <2>2. CASE u # t
      <3>1. CallInv(u) /\ call'[u] = call[u] /\ bumpPc'[u] = bumpPc[u]
        BY <1>3, <2>2 DEF RegionsInv, MemoryInv, ThreadsTyped
      <3> QED
        BY <1>1, <1>11, <3>1, CallFrame
    <2> QED
      BY <2>1, <2>2
  <1>17. \A r \in regions' : RegionInv(r)'
    BY <1>3, <1>13, <1>14
  <1> QED
    BY <1>12, <1>15, <1>16, <1>17 DEF RegionsInv

\* The loads.
LEMMA LoadCurrentRegions ==
  ASSUME MemoryInv, MemoryInv', RegionsInv, NEW t \in BumpThreads, LoadCurrentByte(t)
  PROVE  RegionsInv'
  <1>1. PICK o : o = call[t].object
    OBVIOUS
  <1>2. /\ bumpPc[t] = "loadCurrent" /\ BumpGoto(t, "loadEnd")
        /\ call' = [call EXCEPT ![t].current = currentByte[o]]
        /\ UNCHANGED <<allocatorVars, memoryVars, regions, releasing>>
    BY <1>1 DEF LoadCurrentByte
  <1>3. /\ releasing = Quiet /\ call \in [BumpThreads -> Calls]
        /\ bumpPc \in [BumpThreads -> BumpLabels]
    BY <1>1, <1>2, InCallQuiet DEF MemoryInv, ThreadsTyped
  <1>4. /\ \A u \in BumpThreads : u # t => call'[u] = call[u] /\ bumpPc'[u] = bumpPc[u]
        /\ call'[t].object = o /\ bumpPc'[t] = "loadEnd"
    BY <1>1, <1>2, <1>3 DEF BumpGoto, Calls
  <1>5. SlowPathInv' /\ \A p \in Allocators : Stage(p)' = Stage(p)
    <2>1. "loadEnd" \in BumpLabels \ Locked /\ bumpPc[t] \notin Locked
      BY <1>2 DEF BumpLabels, Locked
    <2> QED
      BY <1>1, <1>2, <1>4, <2>1, SlowPathKept DEF RegionsInv, allocatorVars
  <1>6. CallInv(t)'
    BY <1>4 DEF CallInv
  <1> QED
    BY <1>2, <1>3, <1>4, <1>5, <1>6, QuietStep DEF StageKept, allocatorVars

\* The end is that of a block of the object, or there is none.
LEMMA LoadEndRegions ==
  ASSUME MemoryInv, MemoryInv', RegionsInv, NEW t \in BumpThreads, LoadEnd(t)
  PROVE  RegionsInv'
  <1>1. PICK o : o = call[t].object
    OBVIOUS
  <1> DEFINE label == IF FitsBlock(call[t].current, call[t].alignment, call[t].size, endByte[o])
                      THEN "bump" ELSE "lock"
  <1>2. /\ bumpPc[t] = "loadEnd" /\ BumpGoto(t, label)
        /\ call' = [call EXCEPT ![t].end = endByte[o]]
        /\ UNCHANGED <<allocatorVars, memoryVars, regions, releasing>>
    BY <1>1 DEF LoadEnd
  <1>3. /\ o \in Allocators /\ releasing = Quiet /\ endByte[o] \in Nat
        /\ call \in [BumpThreads -> Calls] /\ bumpPc \in [BumpThreads -> BumpLabels]
    BY <1>1, <1>2, InCallQuiet, Numbers DEF MemoryInv, ThreadsTyped
  <1>4. /\ \A u \in BumpThreads : u # t => call'[u] = call[u] /\ bumpPc'[u] = bumpPc[u]
        /\ call'[t].object = o /\ call'[t].current = call[t].current /\ call'[t].end = endByte[o]
        /\ call'[t].alignment = call[t].alignment /\ call'[t].size = call[t].size
        /\ bumpPc'[t] = label
    BY <1>1, <1>2, <1>3 DEF BumpGoto, Calls
  <1>5. SlowPathInv' /\ \A p \in Allocators : Stage(p)' = Stage(p)
    <2>1. label \in BumpLabels \ Locked /\ bumpPc[t] \notin Locked
      BY <1>2 DEF BumpLabels, Locked
    <2> HIDE DEF label
    <2> QED
      BY <1>1, <1>2, <1>4, <2>1, SlowPathKept DEF RegionsInv, allocatorVars
  <1>6. ObjectInv(o) /\ EndFooter(o) \in ChainIn(header, footer[o]) \cup {0}
    BY <1>3, AllObjects, FootersOf
  <1>7. Prospect(t)' = Prospect(t) /\ header' = header /\ footer' = footer
    BY <1>2, <1>4 DEF Prospect, memoryVars, allocatorVars
  <1>8. ASSUME label = "bump" PROVE CallInv(t)'
    <2>1. endByte[o] # 0 /\ Prospect(t) >= endByte[o]
      BY <1>8 DEF FitsBlock, Prospect
    <2>2. endByte[o] \in 1 .. Prospect(t)
      BY <1>3, <2>1, ProspectIs
    <2>3. \E g \in ChainIn(header, footer[o]) : endByte[o] = Base(g)
      BY <1>6, <2>1 DEF ObjectInv
    <2>4. bumpPc'[t] = "bump"
      BY <1>4, <1>8
    <2> HIDE DEF label
    <2> QED
      BY <1>4, <1>7, <2>2, <2>3, <2>4 DEF CallInv, Base
  <1>9. ASSUME label = "lock" PROVE CallInv(t)'
    BY <1>4, <1>9 DEF CallInv
  <1>10. CallInv(t)'
    BY <1>8, <1>9
  <1> QED
    BY <1>2, <1>3, <1>4, <1>5, <1>10, QuietStep DEF StageKept, allocatorVars

\* The compare_exchange of the fast path.
LEMMA BumpRegions ==
  ASSUME MemoryInv, MemoryInv', RegionsInv, NEW t \in BumpThreads, Bump(t)
  PROVE  RegionsInv'
  <1>1. PICK o : o = call[t].object
    OBVIOUS
  <1>2. /\ bumpPc[t] = "bump"
        /\ UNCHANGED <<endByte, footer, slowPathMutex, memoryVars, releasing>>
    BY DEF Bump
  <1>3. /\ o \in Allocators /\ releasing = Quiet
        /\ call \in [BumpThreads -> Calls] /\ bumpPc \in [BumpThreads -> BumpLabels]
    BY <1>1, <1>2, InCallQuiet DEF MemoryInv, ThreadsTyped
  <1>4. bumpPc[t] \notin Locked
    BY <1>2 DEF Locked
  <1>5. CASE BumpSucceeds(t)
    <2>1. HandOut(t)
      BY <1>5 DEF Bump
    <2>2. BumpGoto(t, "idle") /\ \A u \in BumpThreads : u # t => call'[u] = call[u]
      BY <1>3, <2>1 DEF HandOut
    <2>3. SlowPathInv' /\ \A p \in Allocators : Stage(p)' = Stage(p)
      <3>1. "idle" \in BumpLabels \ Locked
        BY DEF BumpLabels, Locked
      <3> QED
        BY <1>1, <1>2, <1>4, <2>2, <3>1, SlowPathKept DEF RegionsInv
    <2>4. /\ call[t].end \in 1 .. Prospect(t)
          /\ \E g \in ChainIn(header, footer[o]) : call[t].end = Base(g)
      BY <1>1, <1>2, <1>3 DEF RegionsInv, CallInv
    <2> QED
      BY <1>1, <1>2, <1>3, <1>5, <2>1, <2>3, <2>4, HandOutRegions DEF StageKept
  <1>6. CASE ~ BumpSucceeds(t)
    <2>1. /\ call' = [call EXCEPT ![t].current = currentByte[o]] /\ BumpGoto(t, "loadEnd")
          /\ UNCHANGED <<currentByte, regions>>
      BY <1>1, <1>6 DEF Bump
    <2>2. /\ \A u \in BumpThreads : u # t => call'[u] = call[u] /\ bumpPc'[u] = bumpPc[u]
          /\ bumpPc'[t] = "loadEnd"
      BY <1>1, <1>3, <2>1 DEF BumpGoto, Calls
    <2>3. SlowPathInv' /\ \A p \in Allocators : Stage(p)' = Stage(p)
      <3>1. "loadEnd" \in BumpLabels \ Locked
        BY DEF BumpLabels, Locked
      <3> QED
        BY <1>1, <1>2, <1>4, <2>1, <2>2, <3>1, SlowPathKept DEF RegionsInv
    <2>4. CallInv(t)'
      BY <2>2 DEF CallInv
    <2> QED
      BY <1>2, <1>3, <2>1, <2>2, <2>3, <2>4, QuietStep DEF StageKept
  <1> QED
    BY <1>5, <1>6

\* The mutex is taken.
LEMMA LockRegions ==
  ASSUME MemoryInv, MemoryInv', RegionsInv, NEW t \in BumpThreads, Lock(t)
  PROVE  RegionsInv'
  <1>1. PICK o : o = call[t].object
    OBVIOUS
  <1>2. /\ bumpPc[t] = "lock" /\ BumpGoto(t, "recheck")
        /\ UNCHANGED <<endByte, currentByte, footer, memoryVars, regions, call, releasing>>
    BY DEF Lock
  <1>3. releasing = Quiet /\ bumpPc \in [BumpThreads -> BumpLabels]
    BY <1>2, InCallQuiet DEF MemoryInv, ThreadsTyped
  <1>4. /\ \A u \in BumpThreads : u # t => call'[u] = call[u] /\ bumpPc'[u] = bumpPc[u]
        /\ bumpPc'[t] = "recheck"
    BY <1>2, <1>3 DEF BumpGoto
  <1>5. /\ SlowPathInv' /\ Stage(o) = "idle"
        /\ \A p \in Allocators : Stage(p)' = IF p = o THEN "recheck" ELSE Stage(p)
    BY <1>1, SlowPathTaken DEF RegionsInv
  <1>6. \A p \in Allocators : StageKept(p)
    BY <1>5 DEF StageKept
  <1>7. CallInv(t)'
    BY <1>4 DEF CallInv
  <1> QED
    BY <1>2, <1>3, <1>4, <1>5, <1>6, <1>7, QuietStep

\* Another thread has put a block in place.
LEMMA RecheckRegions ==
  ASSUME MemoryInv, MemoryInv', RegionsInv, NEW t \in BumpThreads, Recheck(t)
  PROVE  RegionsInv'
  <1>1. PICK o : o = call[t].object
    OBVIOUS
  <1>2. /\ bumpPc[t] = "recheck" /\ BumpGoto(t, "loadCurrent") /\ slowPathMutex' = Unlock(t)
        /\ UNCHANGED <<endByte, currentByte, footer, memoryVars, regions, call, releasing>>
    BY DEF Recheck
  <1>3. releasing = Quiet /\ bumpPc \in [BumpThreads -> BumpLabels]
    BY <1>2, InCallQuiet DEF MemoryInv, ThreadsTyped
  <1>4. /\ \A u \in BumpThreads : u # t => call'[u] = call[u] /\ bumpPc'[u] = bumpPc[u]
        /\ bumpPc'[t] = "loadCurrent"
    BY <1>2, <1>3 DEF BumpGoto
  <1>5. /\ SlowPathInv' /\ Stage(o) = "recheck"
        /\ \A p \in Allocators : Stage(p)' = IF p = o THEN "idle" ELSE Stage(p)
    <2>1. "loadCurrent" \in BumpLabels \ Locked /\ bumpPc[t] \in Locked
      BY <1>2 DEF BumpLabels, Locked
    <2> QED
      BY <1>1, <1>2, <1>4, <2>1, SlowPathLeft DEF RegionsInv
  <1>6. \A p \in Allocators : StageKept(p)
    BY <1>5 DEF StageKept
  <1>7. CallInv(t)'
    BY <1>4 DEF CallInv
  <1> QED
    BY <1>2, <1>3, <1>4, <1>5, <1>6, <1>7, QuietStep

\* The one try in the new block.
LEMMA BumpNewRegions ==
  ASSUME MemoryInv, MemoryInv', RegionsInv, NEW t \in BumpThreads, BumpNew(t)
  PROVE  RegionsInv'
  <1>1. PICK o : o = call[t].object
    OBVIOUS
  <1>2. /\ bumpPc[t] = "bumpNew" /\ slowPathMutex' = Unlock(t)
        /\ UNCHANGED <<endByte, footer, memoryVars, releasing>>
    BY DEF BumpNew
  <1>3. /\ o \in Allocators /\ releasing = Quiet /\ currentByte[o] \in Nat
        /\ call \in [BumpThreads -> Calls] /\ bumpPc \in [BumpThreads -> BumpLabels]
    BY <1>1, <1>2, InCallQuiet, Numbers DEF MemoryInv, ThreadsTyped
  <1>4. bumpPc[t] \in Locked /\ {"idle", "loadCurrent"} \subseteq BumpLabels \ Locked
    BY <1>2 DEF Locked, BumpLabels
  <1>5. /\ footer[o] # 0 /\ call[t].current = footer[o]
        /\ call[t].end = Base(footer[o]) /\ Base(footer[o]) <= Prospect(t)
    BY <1>1, <1>2, <1>3 DEF RegionsInv, CallInv
  <1>6. ASSUME NEW label \in {"idle", "loadCurrent"}, BumpGoto(t, label),
               \A u \in BumpThreads : u # t => call'[u] = call[u]
        PROVE  /\ SlowPathInv' /\ Stage(o) = "bumpNew"
               /\ \A p \in Allocators : StageKept(p)
    <2>1. label \in BumpLabels \ Locked
      BY <1>4
    <2>2. /\ SlowPathInv' /\ Stage(o) = "bumpNew"
          /\ \A p \in Allocators : Stage(p)' = IF p = o THEN "idle" ELSE Stage(p)
      BY <1>1, <1>2, <1>4, <1>6, <2>1, SlowPathLeft DEF RegionsInv
    <2> QED
      BY <2>2 DEF StageKept
  <1>7. CASE BumpSucceeds(t)
    <2>1. HandOut(t)
      BY <1>7 DEF BumpNew
    <2>2. BumpGoto(t, "idle") /\ \A u \in BumpThreads : u # t => call'[u] = call[u]
      BY <1>3, <2>1 DEF HandOut
    <2>3. SlowPathInv' /\ Stage(o) = "bumpNew" /\ \A p \in Allocators : StageKept(p)
      BY <1>6, <2>2
    <2>4. footer[o] \in Footers
      BY <1>3, <1>5, AllObjects, FootersOf
    <2>5. footer[o] \in ChainIn(header, footer[o]) /\ call[t].end = Base(footer[o])
      BY <1>5, <2>4, Numbers, ChainStep DEF Footers
    <2>6. call[t].end \in 1 .. Prospect(t)
      <3>1. Base(footer[o]) \in Nat \ {0} /\ Prospect(t) \in Nat
        BY <2>4, Numbers, ProspectIs
      <3> QED
        BY <1>5, <3>1
    <2> QED
      BY <1>1, <1>2, <1>3, <1>7, <2>1, <2>3, <2>5, <2>6, HandOutRegions
  <1>8. CASE ~ BumpSucceeds(t)
    <2>1. BumpGoto(t, "loadCurrent") /\ UNCHANGED <<currentByte, regions, call>>
      BY <1>8 DEF BumpNew
    <2>2. /\ \A u \in BumpThreads : u # t => call'[u] = call[u] /\ bumpPc'[u] = bumpPc[u]
          /\ bumpPc'[t] = "loadCurrent"
      BY <1>3, <2>1 DEF BumpGoto
    <2>3. SlowPathInv' /\ \A p \in Allocators : StageKept(p)
      BY <1>6, <2>1, <2>2
    <2>4. CallInv(t)'
      BY <2>2 DEF CallInv
    <2> QED
      BY <1>2, <1>3, <2>1, <2>2, <2>3, <2>4, QuietStep
  <1> QED
    BY <1>7, <1>8

\* A new block, anywhere.
LEMMA NewBlockRegions ==
  ASSUME MemoryInv, MemoryInv', RegionsInv, NEW t \in BumpThreads, NewBlock(t)
  PROVE  RegionsInv'
  <1>1. PICK o : o = call[t].object
    OBVIOUS
  <1>2. /\ bumpPc[t] = "recheck" /\ BumpGoto(t, "storeCurrent")
        /\ UNCHANGED <<endByte, currentByte, slowPathMutex, regions, releasing>>
    BY DEF NewBlock
  <1>3. /\ o \in Allocators /\ releasing = Quiet /\ footer \in [Allocators -> Nat]
        /\ call \in [BumpThreads -> Calls] /\ bumpPc \in [BumpThreads -> BumpLabels]
    BY <1>1, <1>2, InCallQuiet DEF MemoryInv, ThreadsTyped, ObjectsTyped
  <1>4. PICK s \in Nat, base \in Nat \ {0}, f \in Nat \ {0} : NewBlockAs(t, s, base, f)
    BY NewBlockIs
  <1>5. /\ f = base + 2 ^ s - FooterSize /\ base <= f /\ f \notin Footers
        /\ call[t].size + base <= f /\ base % call[t].alignment = 0
        /\ header' = WithFooter(header, f, [shift |-> s, prev |-> footer[o]])
        /\ footer' = [footer EXCEPT ![o] = f]
        /\ call' = [call EXCEPT ![t].current = f, ![t].end = base]
    BY <1>1, <1>4 DEF NewBlockAs
  <1>6. HeaderKept
    BY HeaderIsKept
  <1>7. /\ \A u \in BumpThreads : u # t => call'[u] = call[u] /\ bumpPc'[u] = bumpPc[u]
        /\ call'[t].object = o /\ call'[t].current = f /\ call'[t].end = base
        /\ call'[t].alignment = call[t].alignment /\ call'[t].size = call[t].size
        /\ bumpPc'[t] = "storeCurrent"
    <2>1. call[t] \in Calls
      BY <1>3
    <2> DEFINE m == [call[t] EXCEPT !.current = f, !.end = base]
    <2>2. /\ m.object = call[t].object /\ m.current = f /\ m.end = base
          /\ m.alignment = call[t].alignment /\ m.size = call[t].size
      BY <2>1 DEF Calls
    <2>3. call' = [call EXCEPT ![t] = m]
      BY <1>5
    <2> HIDE DEF m
    <2> QED
      BY <1>1, <1>2, <1>3, <2>2, <2>3 DEF BumpGoto
  <1>8. SlowPathInv' /\ \A p \in Allocators : Stage(p)' = IF p = o THEN "storeCurrent" ELSE Stage(p)
    <2>1. bumpPc[t] \in Locked /\ "storeCurrent" \in Locked \cap BumpLabels
      BY <1>2 DEF Locked, BumpLabels
    <2> QED
      BY <1>1, <1>2, <1>7, <2>1, SlowPathKept DEF RegionsInv
  <1>9. Stage(o) = "recheck"
    <2>1. slowPathMutex[o] = t /\ t # None
      BY <1>1, <1>2, NoneAssumption DEF RegionsInv, SlowPathInv, Locked
    <2> QED
      BY <1>2, <2>1 DEF Stage
  <1>10. /\ DOMAIN header' = Footers \cup {f} /\ header'[f].shift = s /\ header'[f].prev = footer[o]
         /\ BaseIn(header', f) = base
    <2>1. DOMAIN header' = Footers \cup {f} /\ header'[f].shift = s /\ header'[f].prev = footer[o]
      BY <1>5 DEF WithFooter, Footers
    <2>2. BaseIn(header', f) = f + FooterSize - 2 ^ s
      BY <2>1 DEF BaseIn
    <2>3. 2 ^ s \in Int
      OBVIOUS
    <2> QED
      BY <1>5, <2>1, <2>2, <2>3, FooterAssumption
  <1>11. /\ CurrentFooter(o) = footer[o] /\ EndFooter(o) = footer[o]
         /\ CurrentFooter(o)' = footer[o] /\ EndFooter(o)' = footer[o] /\ footer'[o] = f
    <2>1. footer'[o] = f /\ Previous(o)' = footer[o]
      BY <1>3, <1>5, <1>10 DEF Previous
    <2>2. Stage(o)' = "storeCurrent"
      BY <1>3, <1>8
    <2> QED
      BY <1>9, <2>1, <2>2 DEF CurrentFooter, EndFooter
  <1>12. ObjectInv(o) /\ o # releasing.object /\ footer[o] \in Footers \cup {0} /\ TrustKept(o)
    BY <1>2, <1>3, <1>6, AllObjects, FootersOf, TrustIsKept
  <1>13. ObjectInv(o)'
    <2>1. footer[o] # 0 => BaseIn(header', footer[o]) = BaseIn(header, footer[o])
      BY <1>6, <1>12 DEF HeaderKept
    <2>2. currentByte'[o] = currentByte[o] /\ endByte'[o] = endByte[o]
      BY <1>2
    <2>3. endByte'[o] = IF footer[o] = 0 THEN 0 ELSE BaseIn(header', footer[o])
      BY <1>11, <1>12, <2>1, <2>2 DEF ObjectInv, Base
    <2>4. Trusted(o)' => IF footer[o] = 0 THEN currentByte'[o] = 0
                         ELSE BaseIn(header', footer[o]) <= currentByte'[o] /\ currentByte'[o] <= footer[o]
      BY <1>11, <1>12, <2>1, <2>2 DEF ObjectInv, InBlock, Base, TrustKept
    <2> QED
      BY <1>11, <2>3, <2>4 DEF ObjectInv, InBlock, Base
  <1>14. ChainKept(o)
    <2>1. Linked(header')
      BY DEF MemoryInv, ChainsInv
    <2>2. ChainIn(header', f) = {f} \cup ChainIn(header', footer[o])
      BY <1>10, <2>1, ChainStep
    <2>3. ChainIn(header', footer[o]) = ChainIn(header, footer[o])
      BY <1>6, <1>12 DEF HeaderKept
    <2> QED
      BY <1>11, <2>2, <2>3 DEF ChainKept
  <1>15. CallInv(t)'
    <2>1. call[t].size \in Nat /\ call[t].alignment \in Nat \ {0}
      BY <1>3 DEF Calls
    <2>2. Prospect(t)' = GetAlloc(f, call[t].alignment, call[t].size)
      BY <1>7 DEF Prospect
    <2>3. base <= Prospect(t)' /\ call[t].size <= f
      <3>1. base + call[t].size <= f /\ call[t].size <= f
        BY <1>5, <2>1
      <3> QED
        BY <1>5, <2>1, <2>2, <3>1, GetAllocIs
    <2> QED
      BY <1>7, <1>10, <1>11, <2>3 DEF CallInv, Base
  <1>16. ASSUME NEW r \in regions, r.object = o PROVE RegionInv(r)'
    <2>1. RegionInv(r) /\ currentByte'[o] = currentByte[o] /\ currentByte[o] \in Nat
      BY <1>2, <1>3, Numbers DEF RegionsInv
    <2> QED
      BY <1>2, <1>3, <1>6, <1>11, <1>12, <1>14, <1>16, <2>1, RegionFrame
  <1>17. \A p \in Allocators : p # o =>
           /\ StageKept(p) /\ footer'[p] = footer[p]
           /\ currentByte'[p] = currentByte[p] /\ endByte'[p] = endByte[p]
    BY <1>2, <1>3, <1>5, <1>8 DEF StageKept
  <1>18. bumpPc[t] \in Locked
    BY <1>2 DEF Locked
  <1> QED
    BY <1>1, <1>2, <1>3, <1>6, <1>7, <1>8, <1>13, <1>14, <1>15, <1>16, <1>17, <1>18, CallStep

\* The current byte is that of the new block.
LEMMA StoreCurrentRegions ==
  ASSUME MemoryInv, MemoryInv', RegionsInv, NEW t \in BumpThreads, StoreCurrent(t)
  PROVE  RegionsInv'
  <1>1. PICK o : o = call[t].object
    OBVIOUS
  <1> DEFINE f == footer[o]
  <1>2. /\ bumpPc[t] = "storeCurrent" /\ BumpGoto(t, "storeEnd")
        /\ currentByte' = [currentByte EXCEPT ![o] = call[t].current]
        /\ UNCHANGED <<endByte, footer, slowPathMutex, memoryVars, regions, call, releasing>>
    BY <1>1 DEF StoreCurrent
  <1>3. /\ o \in Allocators /\ releasing = Quiet /\ currentByte \in [Allocators -> Nat]
        /\ call \in [BumpThreads -> Calls] /\ bumpPc \in [BumpThreads -> BumpLabels]
    BY <1>1, <1>2, InCallQuiet DEF MemoryInv, ThreadsTyped, ObjectsTyped
  <1>4. HeaderKept /\ header' = header
    BY <1>2, HeaderIsKept DEF memoryVars
  <1>5. /\ \A u \in BumpThreads : u # t => call'[u] = call[u] /\ bumpPc'[u] = bumpPc[u]
        /\ bumpPc'[t] = "storeEnd"
    BY <1>2, <1>3 DEF BumpGoto
  <1>6. SlowPathInv' /\ \A p \in Allocators : Stage(p)' = IF p = o THEN "storeEnd" ELSE Stage(p)
    <2>1. bumpPc[t] \in Locked /\ "storeEnd" \in Locked \cap BumpLabels
      BY <1>2 DEF Locked, BumpLabels
    <2> QED
      BY <1>1, <1>2, <1>5, <2>1, SlowPathKept DEF RegionsInv
  <1>7. Stage(o) = "storeCurrent"
    <2>1. slowPathMutex[o] = t /\ t # None
      BY <1>1, <1>2, NoneAssumption DEF RegionsInv, SlowPathInv, Locked
    <2> QED
      BY <1>2, <2>1 DEF Stage
  <1>8. /\ f # 0 /\ call[t].current = f /\ call[t].end = Base(f)
        /\ call[t].size <= f /\ Base(f) <= Prospect(t)
    BY <1>1, <1>2, <1>3 DEF RegionsInv, CallInv
  <1>9. ObjectInv(o) /\ o # releasing.object /\ f \in Footers /\ Previous(o) \in Footers \cup {0}
        /\ TrustKept(o)
    BY <1>2, <1>3, <1>4, <1>8, AllObjects, FootersOf, TrustIsKept
  <1>10. /\ CurrentFooter(o) = Previous(o) /\ EndFooter(o) = Previous(o)
         /\ CurrentFooter(o)' = f /\ EndFooter(o)' = Previous(o)
    <2>1. Stage(o)' = "storeEnd" /\ footer' = footer
      BY <1>2, <1>3, <1>6
    <2> QED
      BY <1>4, <1>7, <2>1 DEF CurrentFooter, EndFooter, Previous
  <1>11. currentByte'[o] = f /\ f \in Nat \ {0} /\ Base(f) \in 1 .. f
    BY <1>2, <1>3, <1>8, <1>9, Numbers
  <1>12. ObjectInv(o)'
    <2>1. endByte'[o] = endByte[o] /\ footer'[o] = f
      BY <1>2
    <2>2. BaseIn(header', f) <= currentByte'[o] /\ currentByte'[o] <= f
      BY <1>4, <1>11 DEF Base
    <2>3. endByte'[o] = IF EndFooter(o)' = 0 THEN 0 ELSE BaseIn(header', EndFooter(o)')
      BY <1>4, <1>9, <1>10, <2>1 DEF ObjectInv, Base
    <2> HIDE DEF f
    <2> QED
      BY <1>8, <1>10, <2>1, <2>2, <2>3 DEF ObjectInv, InBlock, Base
  <1>13. ChainKept(o)
    BY <1>2, <1>4 DEF ChainKept
  <1>14. CallInv(t)'
    <2>1. call' = call /\ footer'[o] = f /\ Prospect(t)' = Prospect(t) /\ BaseIn(header', f) = Base(f)
      BY <1>2, <1>4 DEF Prospect, Base
    <2> QED
      BY <1>1, <1>5, <1>8, <2>1 DEF CallInv, Base
  <1>15. ASSUME NEW r \in regions, r.object = o PROVE RegionInv(r)'
    <2>1. RegionInv(r)
      BY DEF RegionsInv
    <2>2. \E g \in ChainIn(header', footer'[o]) : r.end = BaseIn(header', g)
      BY <1>2, <1>4, <1>15, <2>1 DEF RegionInv, Base
    <2>3. ASSUME Trusted(o)' PROVE Placed(r)'
      <3>1. PICK g \in ChainIn(header, Previous(o)) : Base(g) <= r.at /\ r.at + r.size <= g
        BY <1>9, <1>10, <1>15, <2>1, <2>3 DEF RegionInv, Placed, TrustKept
      <3>2. ChainIn(header, f) = {f} \cup ChainIn(header, Previous(o))
        BY <1>9, Numbers, ChainStep DEF Previous, Footers
      <3>3. g \in ChainIn(header, f) /\ g # f
        BY <1>9, <3>1, <3>2 DEF MemoryInv, ChainsInv, Chained, Previous, Footers
      <3>4. BaseIn(header', g) <= r.at
        BY <1>4, <3>1 DEF Base
      <3>5. CurrentFooter(r.object)' = f
        BY <1>10, <1>15
      <3> HIDE DEF f
      <3> QED
        BY <1>4, <3>1, <3>3, <3>4, <3>5 DEF Placed, Base
    <2>4. releasing' = releasing
      BY <1>2
    <2> QED
      BY <1>15, <2>1, <2>2, <2>3, <2>4 DEF RegionInv, Base
  <1>16. \A p \in Allocators : p # o =>
           /\ StageKept(p) /\ footer'[p] = footer[p]
           /\ currentByte'[p] = currentByte[p] /\ endByte'[p] = endByte[p]
    BY <1>2, <1>3, <1>6 DEF StageKept
  <1>17. bumpPc[t] \in Locked
    BY <1>2 DEF Locked
  <1> QED
    BY <1>1, <1>2, <1>3, <1>4, <1>5, <1>6, <1>12, <1>13, <1>14, <1>15, <1>16, <1>17, CallStep

\* The end follows.
LEMMA StoreEndRegions ==
  ASSUME MemoryInv, MemoryInv', RegionsInv, NEW t \in BumpThreads, StoreEnd(t)
  PROVE  RegionsInv'
  <1>1. PICK o : o = call[t].object
    OBVIOUS
  <1> DEFINE f == footer[o]
  <1>2. /\ bumpPc[t] = "storeEnd" /\ BumpGoto(t, "bumpNew")
        /\ endByte' = [endByte EXCEPT ![o] = call[t].end]
        /\ UNCHANGED <<currentByte, footer, slowPathMutex, memoryVars, regions, call, releasing>>
    BY <1>1 DEF StoreEnd
  <1>3. /\ o \in Allocators /\ releasing = Quiet /\ endByte \in [Allocators -> Nat]
        /\ call \in [BumpThreads -> Calls] /\ bumpPc \in [BumpThreads -> BumpLabels]
    BY <1>1, <1>2, InCallQuiet DEF MemoryInv, ThreadsTyped, ObjectsTyped
  <1>4. HeaderKept /\ header' = header
    BY <1>2, HeaderIsKept DEF memoryVars
  <1>5. /\ \A u \in BumpThreads : u # t => call'[u] = call[u] /\ bumpPc'[u] = bumpPc[u]
        /\ bumpPc'[t] = "bumpNew"
    BY <1>2, <1>3 DEF BumpGoto
  <1>6. SlowPathInv' /\ \A p \in Allocators : Stage(p)' = IF p = o THEN "bumpNew" ELSE Stage(p)
    <2>1. bumpPc[t] \in Locked /\ "bumpNew" \in Locked \cap BumpLabels
      BY <1>2 DEF Locked, BumpLabels
    <2> QED
      BY <1>1, <1>2, <1>5, <2>1, SlowPathKept DEF RegionsInv
  <1>7. Stage(o) = "storeEnd"
    <2>1. slowPathMutex[o] = t /\ t # None
      BY <1>1, <1>2, NoneAssumption DEF RegionsInv, SlowPathInv, Locked
    <2> QED
      BY <1>2, <2>1 DEF Stage
  <1>8. /\ f # 0 /\ call[t].current = f /\ call[t].end = Base(f)
        /\ call[t].size <= f /\ Base(f) <= Prospect(t)
    BY <1>1, <1>2, <1>3 DEF RegionsInv, CallInv
  <1>9. ObjectInv(o) /\ o # releasing.object /\ f \in Footers /\ TrustKept(o)
    BY <1>2, <1>3, <1>4, <1>8, AllObjects, FootersOf, TrustIsKept
  <1>10. CurrentFooter(o) = f /\ CurrentFooter(o)' = f /\ EndFooter(o)' = f
    <2>1. Stage(o)' = "bumpNew" /\ footer' = footer
      BY <1>2, <1>3, <1>6
    <2> QED
      BY <1>4, <1>7, <2>1 DEF CurrentFooter, EndFooter
  <1>11. endByte'[o] = Base(f) /\ currentByte' = currentByte /\ footer'[o] = f
    BY <1>2, <1>3, <1>8
  <1>12. ObjectInv(o)'
    <2>1. Trusted(o)' => BaseIn(header', f) <= currentByte'[o] /\ currentByte'[o] <= f
      BY <1>4, <1>8, <1>9, <1>10, <1>11 DEF ObjectInv, InBlock, Base, TrustKept
    <2>2. endByte'[o] = BaseIn(header', f)
      BY <1>4, <1>11 DEF Base
    <2> HIDE DEF f
    <2> QED
      BY <1>8, <1>10, <1>11, <2>1, <2>2 DEF ObjectInv, InBlock, Base
  <1>13. ChainKept(o)
    BY <1>2, <1>4 DEF ChainKept
  <1>14. CallInv(t)'
    <2>1. call' = call /\ footer'[o] = f /\ Prospect(t)' = Prospect(t) /\ BaseIn(header', f) = Base(f)
      BY <1>2, <1>4 DEF Prospect, Base
    <2> QED
      BY <1>1, <1>5, <1>8, <2>1 DEF CallInv, Base
  <1>15. ASSUME NEW r \in regions, r.object = o PROVE RegionInv(r)'
    <2>1. RegionInv(r) /\ currentByte'[o] = currentByte[o] /\ currentByte[o] \in Nat
      BY <1>2, <1>3, Numbers DEF RegionsInv
    <2> QED
      BY <1>2, <1>3, <1>4, <1>9, <1>10, <1>13, <1>15, <2>1, RegionFrame
  <1>16. \A p \in Allocators : p # o =>
           /\ StageKept(p) /\ footer'[p] = footer[p]
           /\ currentByte'[p] = currentByte[p] /\ endByte'[p] = endByte[p]
    BY <1>2, <1>3, <1>6 DEF StageKept
  <1>17. bumpPc[t] \in Locked
    BY <1>2 DEF Locked
  <1> QED
    BY <1>1, <1>2, <1>3, <1>4, <1>5, <1>6, <1>12, <1>13, <1>14, <1>15, <1>16, <1>17, CallStep

\* A step of a thread.
LEMMA ThreadRegions ==
  ASSUME MemoryInv, MemoryInv', RegionsInv, NEW t \in BumpThreads, BumpStep(t)
  PROVE  RegionsInv'
  BY LoadCurrentRegions, LoadEndRegions, BumpRegions, LockRegions, RecheckRegions,
     NewBlockRegions, StoreCurrentRegions, StoreEndRegions, BumpNewRegions DEF BumpStep

\* A call begins.
LEMMA AllocateRegions ==
  ASSUME MemoryInv, MemoryInv', RegionsInv, NEW t \in BumpThreads, NEW o \in Allocators, NEW request \in Requests,
         AllocateRegion(t, o, request)
  PROVE  RegionsInv'
  <1>1. /\ bumpPc[t] = "idle" /\ releasing = Quiet /\ BumpGoto(t, "loadCurrent")
        /\ UNCHANGED <<allocatorVars, memoryVars, regions, releasing>>
    BY DEF AllocateRegion
  <1>2. call \in [BumpThreads -> Calls] /\ bumpPc \in [BumpThreads -> BumpLabels]
    BY DEF MemoryInv, ThreadsTyped
  <1>3. /\ \A u \in BumpThreads : u # t => call'[u] = call[u] /\ bumpPc'[u] = bumpPc[u]
        /\ bumpPc'[t] = "loadCurrent"
    BY <1>1, <1>2 DEF AllocateRegion, BumpGoto
  <1>4. SlowPathInv' /\ \A p \in Allocators : Stage(p)' = Stage(p)
    <2>1. "loadCurrent" \in BumpLabels \ Locked /\ bumpPc[t] \notin Locked
      BY <1>1 DEF BumpLabels, Locked
    <2>2. PICK a : a = call[t].object
      OBVIOUS
    <2> QED
      BY <1>1, <1>3, <2>1, <2>2, SlowPathKept DEF RegionsInv, allocatorVars
  <1>5. CallInv(t)'
    BY <1>3 DEF CallInv
  <1> QED
    BY <1>1, <1>3, <1>4, <1>5, QuietStep DEF StageKept, allocatorVars

\* While no thread is in a call, no new block is being put in place.
LEMMA IdleStages ==
  ASSUME MemoryInv, SlowPathInv, \A t \in BumpThreads : bumpPc[t] = "idle"
  PROVE  \A o \in Allocators : /\ Stage(o) = "idle" /\ CurrentFooter(o) = footer[o]
                               /\ EndFooter(o) = footer[o]
  <1> SUFFICES ASSUME NEW o \in Allocators PROVE Stage(o) = "idle"
    BY DEF CurrentFooter, EndFooter
  <1>1. slowPathMutex[o] \in BumpThreads \cup {None}
    BY DEF MemoryInv, ObjectsTyped
  <1>2. slowPathMutex[o] = None
    BY <1>1 DEF SlowPathInv, Locked
  <1> QED
    BY <1>2 DEF Stage

\* A move or a destructor begins: the regions of the object are no more.
LEMMA ReleaseRegions ==
  ASSUME MemoryInv, RegionsInv, NEW o \in Allocators, NEW source \in Allocators \cup {None},
         Release(o, source)
  PROVE  RegionsInv'
  <1>1. /\ releasing = Quiet
        /\ releasing' = [object |-> o, source |-> source, footer |-> footer[o]]
        /\ regions' = {r \in regions : r.object # o}
        /\ UNCHANGED <<allocatorVars, memoryVars, callVars>>
    BY DEF Release
  <1>2. /\ endByte' = endByte /\ currentByte' = currentByte /\ footer' = footer
        /\ slowPathMutex' = slowPathMutex /\ header' = header /\ bumpPc' = bumpPc /\ call' = call
    BY <1>1 DEF allocatorVars, memoryVars, callVars
  <1>3. \A p \in Allocators : Stage(p)' = Stage(p)
    BY <1>2 DEF Stage
  <1>4. \A p : CurrentFooter(p)' = CurrentFooter(p) /\ EndFooter(p)' = EndFooter(p)
    BY <1>2 DEF CurrentFooter, EndFooter, Previous, Stage
  <1>5. \A p : p # o => TrustKept(p)
    BY <1>1, <1>2 DEF TrustKept, Trusted, Matched, InBlock, Base, Footers
  <1>6. ASSUME NEW p \in Allocators, p # o PROVE ObjectInv(p)'
    <2>1. ObjectInv(p) /\ TrustKept(p)
      BY <1>1, <1>5, <1>6, AllObjects
    <2> QED
      BY <1>2, <1>3, <1>4, <2>1 DEF ObjectInv, InBlock, Base, TrustKept
  <1>7. ASSUME NEW r \in regions' PROVE RegionInv(r)'
    <2>1. RegionInv(r) /\ r.object # releasing'.object /\ TrustKept(r.object)
      BY <1>1, <1>5 DEF RegionsInv
    <2> QED
      BY <1>2, <1>4, <2>1 DEF RegionInv, Placed, Base, TrustKept
  <1>8. SlowPathInv'
    BY <1>2 DEF RegionsInv, SlowPathInv
  <1>9. TrustedApart'
    BY <1>1, <1>5, ApartKept
  <1>10. \A t \in BumpThreads : CallInv(t)'
    <2>1. \A t \in BumpThreads : CallInv(t) /\ Prospect(t)' = Prospect(t)
      BY <1>2 DEF RegionsInv, Prospect
    <2> QED
      BY <1>2, <2>1 DEF CallInv, Base
  <1>11. releasing'.object = o
    BY <1>1
  <1> QED
    BY <1>6, <1>7, <1>8, <1>9, <1>10, <1>11 DEF RegionsInv

\* No thread is in a call: what calls have read is of no interest.
LEMMA NoCalls ==
  ASSUME NEW t \in BumpThreads, bumpPc'[t] = "idle"
  PROVE  CallInv(t)'
  BY DEF CallInv

\* A block is freed: those of the other objects stay.
LEMMA FreeBlockRegions ==
  ASSUME MemoryInv, RegionsInv, FreeBlock
  PROVE  RegionsInv'
  <1>1. PICK o, f : o = releasing.object /\ f = releasing.footer
    OBVIOUS
  <1>2. /\ f # 0 /\ header' = WithoutFooter(header, f)
        /\ releasing' = [releasing EXCEPT !.footer = header[f].prev]
        /\ UNCHANGED <<allocatorVars, regions, callVars>>
    BY <1>1 DEF FreeBlock, WithoutFooter
  <1>3. releasing # Quiet
    BY <1>1, <1>2 DEF Quiet
  <1>4. /\ o \in Allocators /\ Heads[o] = f /\ \A t \in BumpThreads : bumpPc[t] = "idle"
        /\ releasing'.object = o
    BY <1>1, <1>2, <1>3, Releasing DEF MemoryInv, ReleaseInv
  <1>5. /\ endByte' = endByte /\ currentByte' = currentByte /\ footer' = footer
        /\ slowPathMutex' = slowPathMutex /\ bumpPc' = bumpPc /\ call' = call
    BY <1>2 DEF allocatorVars, callVars
  <1>6. MemoryInv'
    BY MemoryStep DEF BumpNext
  <1>7. SlowPathInv /\ SlowPathInv'
    BY <1>5 DEF RegionsInv, SlowPathInv
  <1>8. /\ \A p \in Allocators : CurrentFooter(p) = footer[p] /\ EndFooter(p) = footer[p] /\ Stage(p) = "idle"
        /\ \A p \in Allocators : CurrentFooter(p)' = footer[p] /\ EndFooter(p)' = footer[p] /\ Stage(p)' = "idle"
    <2>1. \A p \in Allocators : CurrentFooter(p) = footer[p] /\ EndFooter(p) = footer[p] /\ Stage(p) = "idle"
      BY <1>4, <1>7, IdleStages
    <2>2. \A p \in Allocators : Stage(p)' = Stage(p)
      BY <1>5 DEF Stage
    <2> QED
      BY <1>5, <2>1, <2>2 DEF CurrentFooter, EndFooter
  <1>9. Linked(header) /\ Linked(header') /\ Chained(header, Heads)
    BY <1>6 DEF MemoryInv, ChainsInv
  <1>10. /\ DOMAIN header' = Footers \ {f} /\ f \in Footers
         /\ \A g \in Footers \ {f} : header'[g] = header[g] /\ BaseIn(header', g) = BaseIn(header, g)
    <2>1. DOMAIN header' = Footers \ {f} /\ \A g \in Footers \ {f} : header'[g] = header[g]
      BY <1>2 DEF WithoutFooter, Footers
    <2>2. f \in Footers
      BY <1>2, <1>4, <1>9 DEF Chained, Footers
    <2> QED
      BY <2>1, <2>2 DEF BaseIn
  <1>11. ASSUME NEW p \in Allocators, p # o
         PROVE  /\ footer[p] \in (Footers \ {f}) \cup {0}
                /\ ChainIn(header', footer[p]) = ChainIn(header, footer[p])
    <2>1. Heads[p] = footer[p]
      BY <1>1, <1>11 DEF Heads
    <2>2. f \in ChainIn(header, Heads[o])
      BY <1>4, <1>9, <1>10, ChainStep DEF Footers
    <2>3. f \notin ChainIn(header, footer[p])
      BY <1>4, <1>9, <1>11, <2>1, <2>2 DEF Chained
    <2>4. footer[p] \in Footers \cup {0}
      BY <1>9, <2>1 DEF Chained, Footers
    <2>5. footer[p] # f
      BY <1>9, <1>10, <2>3, ChainStep DEF Footers
    <2>6. ChainIn(header, footer[p]) \subseteq DOMAIN header'
      BY <1>10, <2>3 DEF ChainIn, Footers
    <2>7. ChainIn(header', footer[p]) = ChainIn(header, footer[p])
      <3>1. footer[p] \in DOMAIN header \cup {0} /\ footer[p] \in DOMAIN header' \cup {0}
        BY <1>10, <2>4, <2>5 DEF Footers
      <3>2. \A x \in ChainIn(header, footer[p]) : header'[x].prev = header[x].prev
        BY <1>10, <2>6
      <3> QED
        BY <1>9, <2>6, <3>1, <3>2, ChainSame
    <2> QED
      BY <2>4, <2>5, <2>7
  <1>12. \A p : TrustKept(p)
    <2>1. \A r : Matched(r)' => Matched(r)
      BY <1>10 DEF Matched, InBlock, Base, Footers
    <2> QED
      BY <1>2, <2>1 DEF TrustKept, Trusted
  <1>13. ASSUME NEW p \in Allocators, p # releasing'.object PROVE ObjectInv(p)'
    <2>1. ObjectInv(p) /\ p # o
      BY <1>1, <1>4, <1>13 DEF RegionsInv
    <2>2. footer[p] # 0 => BaseIn(header', footer[p]) = BaseIn(header, footer[p])
      BY <1>10, <1>11, <2>1
    <2> QED
      BY <1>5, <1>8, <1>12, <2>1, <2>2 DEF ObjectInv, InBlock, Base, TrustKept
  <1>14. ASSUME NEW r \in regions' PROVE RegionInv(r)'
    <2>1. RegionInv(r) /\ r.object \in Allocators /\ r \in regions
      BY <1>2, <1>14, Numbers DEF RegionsInv
    <2>2. r.object # o /\ r.object # releasing'.object
      BY <1>1, <1>4, <2>1 DEF RegionInv
    <2>3. ChainIn(header', footer[r.object]) = ChainIn(header, footer[r.object])
      BY <1>11, <2>1, <2>2
    <2>4. \A g \in ChainIn(header, footer[r.object]) : BaseIn(header', g) = BaseIn(header, g)
      BY <1>10, <2>3 DEF ChainIn
    <2>5. \E g \in ChainIn(header', footer'[r.object]) : r.end = BaseIn(header', g)
      BY <1>5, <2>1, <2>3, <2>4 DEF RegionInv, Base
    <2>6. CurrentFooter(r.object) = footer[r.object] /\ CurrentFooter(r.object)' = footer[r.object]
      BY <1>8, <2>1
    <2>7. ASSUME Trusted(r.object)' PROVE Placed(r)'
      <3>1. Placed(r)
        BY <1>12, <2>1, <2>7 DEF RegionInv, TrustKept
      <3>2. PICK g \in ChainIn(header, footer[r.object]) :
              /\ Base(g) <= r.at /\ r.at + r.size <= g
              /\ g = footer[r.object] => currentByte[r.object] <= r.at
        BY <2>6, <3>1 DEF Placed
      <3> QED
        BY <1>5, <2>3, <2>4, <2>6, <3>2 DEF Placed, Base
    <2> QED
      BY <2>1, <2>2, <2>5, <2>7 DEF RegionInv, Base
  <1>15. TrustedApart' /\ \A t \in BumpThreads : CallInv(t)'
    <2>1. TrustedApart'
      BY <1>2, <1>12, ApartKept
    <2> QED
      BY <1>4, <1>5, <2>1, NoCalls
  <1> QED
    BY <1>7, <1>13, <1>14, <1>15 DEF RegionsInv

\* A move or a destructor ends: the object has the blocks and the regions of the source.
LEMMA ReleasedRegions ==
  ASSUME MemoryInv, RegionsInv, Released
  PROVE  RegionsInv'
  <1>1. PICK o, source : o = releasing.object /\ source = releasing.source
    OBVIOUS
  <1> DEFINE moved(r) == [r EXCEPT !.object = IF @ = source THEN o ELSE @]
  <1>2. /\ releasing # Quiet /\ releasing' = Quiet
        /\ endByte' = Moved(endByte, 0) /\ currentByte' = Moved(currentByte, 0)
        /\ footer' = Moved(footer, 0)
        /\ regions' = {moved(r) : r \in regions}
        /\ UNCHANGED <<slowPathMutex, memoryVars, callVars>>
    BY <1>1 DEF Released
  <1>3. /\ o \in Allocators /\ source \in Allocators \cup {None} /\ source # o
        /\ \A t \in BumpThreads : bumpPc[t] = "idle"
    BY <1>1, <1>2, Releasing
  <1>4. header' = header /\ slowPathMutex' = slowPathMutex /\ bumpPc' = bumpPc /\ call' = call
    BY <1>2 DEF memoryVars, callVars
  <1> DEFINE of(p, field) == IF p = o THEN IF source = None THEN 0 ELSE field[source]
                             ELSE IF p = source THEN 0 ELSE field[p]
  <1>5. \A p \in Allocators : /\ endByte'[p] = of(p, endByte) /\ currentByte'[p] = of(p, currentByte)
                              /\ footer'[p] = of(p, footer)
    <2>1. \A field \in [Allocators -> Nat], p \in Allocators : Moved(field, 0)[p] = of(p, field)
      BY <1>1, <1>2, MovedIs
    <2>2. /\ endByte \in [Allocators -> Nat] /\ currentByte \in [Allocators -> Nat]
          /\ footer \in [Allocators -> Nat]
      BY DEF MemoryInv, ObjectsTyped
    <2> HIDE DEF of
    <2> QED
      BY <1>2, <2>1, <2>2
  <1>6. SlowPathInv /\ SlowPathInv'
    BY <1>4 DEF RegionsInv, SlowPathInv
  <1>7. /\ \A p \in Allocators : CurrentFooter(p) = footer[p] /\ EndFooter(p) = footer[p] /\ Stage(p) = "idle"
        /\ \A p \in Allocators : CurrentFooter(p)' = footer'[p] /\ EndFooter(p)' = footer'[p] /\ Stage(p)' = "idle"
    <2>1. \A p \in Allocators : CurrentFooter(p) = footer[p] /\ EndFooter(p) = footer[p] /\ Stage(p) = "idle"
      BY <1>3, <1>6, IdleStages
    <2>2. \A p \in Allocators : Stage(p)' = Stage(p)
      BY <1>4 DEF Stage
    <2> QED
      BY <2>1, <2>2 DEF CurrentFooter, EndFooter
  <1>8. ASSUME NEW r \in regions
        PROVE  /\ moved(r).object = IF r.object = source THEN o ELSE r.object
               /\ moved(r).number = r.number /\ moved(r).at = r.at
               /\ moved(r).size = r.size /\ moved(r).alignment = r.alignment
               /\ moved(r).current = r.current /\ moved(r).end = r.end
    BY DEF MemoryInv, RegionsTyped, Regions
  <1>9. \A r \in regions : moved(r) \in regions'
    BY <1>2
  <1> HIDE DEF moved
  <1>10. ASSUME NEW p \in Allocators, p # o
         PROVE  /\ p # source => TrustKept(p)
                /\ p = source => (Trusted(o)' => Trusted(p))
    <2>1. \A r \in regions : Matched(moved(r))' => Matched(r)
      BY <1>4, <1>8 DEF Matched, InBlock, Base, Footers
    <2>2. \A r \in regions : r.object = p /\ p # source => moved(r).object = p
      BY <1>8
    <2>3. \A r \in regions : r.object = p /\ p = source => moved(r).object = o
      BY <1>8
    <2> QED
      BY <1>9, <2>1, <2>2, <2>3 DEF TrustKept, Trusted
  <1>11. ASSUME NEW p \in Allocators
         PROVE  ObjectInv(p)'
    <2>1. \A q \in Allocators : q # o =>
            /\ endByte[q] = IF footer[q] = 0 THEN 0 ELSE BaseIn(header, footer[q])
            /\ Trusted(q) => IF footer[q] = 0 THEN currentByte[q] = 0
                             ELSE BaseIn(header, footer[q]) <= currentByte[q] /\ currentByte[q] <= footer[q]
      BY <1>1, <1>7 DEF RegionsInv, ObjectInv, InBlock, Base
    <2>2. /\ endByte'[p] = IF footer'[p] = 0 THEN 0 ELSE BaseIn(header, footer'[p])
          /\ Trusted(p)' => IF footer'[p] = 0 THEN currentByte'[p] = 0
                            ELSE BaseIn(header, footer'[p]) <= currentByte'[p] /\ currentByte'[p] <= footer'[p]
      <3>1. CASE p = o /\ source # None
        <4>1. source \in Allocators /\ source # o /\ (Trusted(o)' => Trusted(source))
          BY <1>3, <1>10, <3>1
        <4> QED
          BY <1>5, <2>1, <3>1, <4>1
      <3>2. CASE p = o /\ source = None
        BY <1>5, <3>2
      <3>3. CASE p # o /\ p = source
        BY <1>5, <3>3
      <3>4. CASE p # o /\ p # source
        <4>1. Trusted(p)' => Trusted(p)
          BY <1>10, <3>4 DEF TrustKept
        <4> QED
          BY <1>5, <2>1, <3>4, <4>1
      <3> QED
        BY <3>1, <3>2, <3>3, <3>4
    <2> QED
      BY <1>4, <1>7, <2>2 DEF ObjectInv, InBlock, Base
  <1>12. ASSUME NEW r \in regions
         PROVE  /\ r.object \in Allocators /\ r.object # o /\ RegionInv(r)
                /\ moved(r).object \in Allocators
                /\ Trusted(moved(r).object)' => Trusted(r.object)
                /\ footer'[moved(r).object] = footer[r.object]
                /\ currentByte'[moved(r).object] = currentByte[r.object]
    <2>1. RegionInv(r) /\ r.object \in Allocators /\ r.object # o
      BY <1>1, Numbers DEF RegionsInv, RegionInv
    <2>2. CASE r.object = source
      <3>1. moved(r).object = o /\ source # None
        BY <1>8, <2>1, <2>2, NoneAssumption
      <3> QED
        BY <1>3, <1>5, <1>10, <2>1, <2>2, <3>1
    <2>3. CASE r.object # source
      <3>1. moved(r).object = r.object
        BY <1>8, <2>3
      <3> QED
        BY <1>5, <1>10, <2>1, <2>3, <3>1 DEF TrustKept
    <2> QED
      BY <2>2, <2>3
  <1>13. ASSUME NEW n \in regions' PROVE RegionInv(n)'
    <2>1. PICK r \in regions : n = moved(r)
      BY <1>2, <1>13
    <2>2. /\ r.object \in Allocators /\ RegionInv(r)
          /\ n.object \in Allocators /\ footer'[n.object] = footer[r.object]
          /\ currentByte'[n.object] = currentByte[r.object]
          /\ Trusted(n.object)' => Trusted(r.object)
      BY <1>12, <2>1
    <2>3. n.at = r.at /\ n.size = r.size /\ n.alignment = r.alignment /\ n.end = r.end
      BY <1>8, <2>1
    <2>4. n.object # releasing'.object
      BY <1>2, <2>2, NoneAssumption DEF Quiet
    <2>5. CurrentFooter(n.object)' = CurrentFooter(r.object)
      BY <1>7, <2>2
    <2>6. Trusted(n.object)' => Placed(n)'
      BY <1>4, <2>2, <2>3, <2>5 DEF RegionInv, Placed, Base
    <2> QED
      BY <1>4, <2>2, <2>3, <2>4, <2>6 DEF RegionInv, Base
  <1>14. TrustedApart'
    <2> SUFFICES ASSUME NEW m \in regions', NEW n \in regions', Trusted(m.object)', Trusted(n.object)',
                        m.number # n.number
                 PROVE  Apart(m, n)
      BY DEF TrustedApart, Apart
    <2>1. PICK r \in regions, s \in regions : m = moved(r) /\ n = moved(s)
      BY <1>2
    <2>2. r.number # s.number /\ m.at = r.at /\ m.size = r.size /\ n.at = s.at /\ n.size = s.size
      BY <1>8, <2>1
    <2>3. Trusted(r.object) /\ Trusted(s.object)
      BY <1>12, <2>1
    <2> QED
      BY <2>2, <2>3 DEF RegionsInv, TrustedApart, Apart
  <1>15. \A t \in BumpThreads : CallInv(t)'
    BY <1>3, <1>4, NoCalls
  <1> QED
    BY <1>6, <1>11, <1>13, <1>14, <1>15 DEF RegionsInv

LEMMA RegionsInit == BumpInit => RegionsInv
  <1> SUFFICES ASSUME BumpInit PROVE RegionsInv
    OBVIOUS
  <1>1. SlowPathInv /\ TrustedApart
    BY DEF BumpInit, SlowPathInv, TrustedApart, Locked
  <1>2. \A o \in Allocators : Stage(o) = "idle" /\ CurrentFooter(o) = 0 /\ EndFooter(o) = 0
    BY DEF BumpInit, Stage, CurrentFooter, EndFooter
  <1>3. \A o \in Allocators : ObjectInv(o)
    BY <1>2 DEF BumpInit, ObjectInv
  <1>4. \A t \in BumpThreads : CallInv(t)
    BY DEF BumpInit, CallInv
  <1> QED
    BY <1>1, <1>3, <1>4 DEF RegionsInv, BumpInit

\* Every step keeps the regions.
LEMMA RegionsStep == MemoryInv /\ RegionsInv /\ [BumpNext]_bumpVars => RegionsInv'
  <1> SUFFICES ASSUME MemoryInv, RegionsInv, [BumpNext]_bumpVars PROVE RegionsInv'
    OBVIOUS
  <1>1. MemoryInv'
    BY MemoryStep
  <1>2. CASE UNCHANGED bumpVars
    <2>1. /\ UNCHANGED <<endByte, currentByte, footer, slowPathMutex, header, regions, bumpPc, call, releasing>>
      BY <1>2 DEF bumpVars, allocatorVars, memoryVars, callVars
    <2>2. \A p : /\ Stage(p)' = Stage(p) /\ CurrentFooter(p)' = CurrentFooter(p)
                 /\ EndFooter(p)' = EndFooter(p) /\ TrustKept(p)
      BY <2>1 DEF CurrentFooter, EndFooter, Previous, Stage, TrustKept, Trusted, Matched, InBlock, Base, Footers
    <2>3. \A t : Prospect(t)' = Prospect(t)
      BY <2>1 DEF Prospect
    <2>4. SlowPathInv' /\ TrustedApart'
      BY <2>1, <2>2, ApartKept DEF RegionsInv, SlowPathInv
    <2>5. \A p \in Allocators : p # releasing'.object => ObjectInv(p)'
      BY <2>1, <2>2 DEF RegionsInv, ObjectInv, InBlock, Base, TrustKept
    <2>6. ASSUME NEW r \in regions' PROVE RegionInv(r)'
      <3>1. RegionInv(r) /\ TrustKept(r.object)
        BY <2>1, <2>2 DEF RegionsInv
      <3> QED
        BY <2>1, <2>2, <3>1 DEF RegionInv, Placed, Base, TrustKept
    <2>7. \A t \in BumpThreads : CallInv(t)'
      BY <2>1, <2>2, <2>3 DEF RegionsInv, CallInv, Base
    <2> QED
      BY <2>4, <2>5, <2>6, <2>7 DEF RegionsInv
  <1> QED
    BY <1>1, <1>2, ThreadRegions, AllocateRegions, ReleaseRegions, FreeBlockRegions, ReleasedRegions DEF BumpNext

\* A block, by its footer.
LEMMA BlockFacts ==
  ASSUME MemoryInv, NEW g \in Footers
  PROVE  /\ BlockAt(g) \in blocks /\ BlockAt(g).base = Base(g)
         /\ BlockAt(g).base + BlockAt(g).size - FooterSize = g
  <1>1. BlockAt(g) \in blocks /\ BlockAt(g).base = Base(g)
    BY BaseIs DEF MemoryInv, BlocksInv
  <1>2. header[g].shift \in Nat /\ g \in Nat
    BY DEF MemoryInv, ObjectsTyped
  <1>3. 2 ^ header[g].shift \in Int
    BY <1>2
  <1> QED
    BY <1>1, <1>2, <1>3, FooterAssumption DEF BlockAt

\* Who is coherent is trusted.
LEMMA CoherentTrusted ==
  ASSUME MemoryInv, NEW o, Coherent(o)
  PROVE  Trusted(o)
  <1> SUFFICES ASSUME NEW r \in regions, r.object = o PROVE Matched(r)
    BY DEF Trusted
  <1>1. PICK b \in blocks : r.end = b.base /\ r.current \in b.base .. b.base + b.size - FooterSize
    BY DEF Coherent, OneBlock
  <1>2. PICK g \in Footers : b = BlockAt(g)
    BY DEF MemoryInv, BlocksInv
  <1>3. b.base = Base(g) /\ b.base + b.size - FooterSize = g /\ g \in Nat /\ Base(g) \in Nat
    BY <1>2, BlockFacts, Numbers
  <1>4. r.end = Base(g) /\ InBlock(r.current, g)
    BY <1>1, <1>3 DEF InBlock
  <1> QED
    BY <1>4 DEF Matched

LEMMA RegionsInvImpliesOwned == MemoryInv /\ RegionsInv => RegionsOwned
  <1> SUFFICES ASSUME MemoryInv, RegionsInv, NEW r \in regions, Coherent(r.object)
               PROVE  /\ Inside(r)
                      /\ \A s \in regions : Coherent(s.object) /\ r.number # s.number => Apart(r, s)
    BY DEF RegionsOwned
  <1>1. Inside(r)
    <2>1. Placed(r) /\ r.at % r.alignment = 0
      BY CoherentTrusted DEF RegionsInv, RegionInv
    <2>2. PICK g \in ChainIn(header, CurrentFooter(r.object)) : Base(g) <= r.at /\ r.at + r.size <= g
      BY <2>1 DEF Placed
    <2>3. g \in Footers
      BY <2>2 DEF ChainIn, Footers
    <2> QED
      BY <2>1, <2>2, <2>3, BlockFacts DEF Inside
  <1>2. \A s \in regions : Coherent(s.object) /\ r.number # s.number => Apart(r, s)
    BY CoherentTrusted DEF RegionsInv, TrustedApart
  <1> QED
    BY <1>1, <1>2

\* Wherever the system places the blocks, and whoever bumps the current byte or puts a
\* block in place between the loads and the compare_exchange of another
\* (BumpAllocator::allocate): as long as the calls on an object compared the current
\* byte of a block with the end of the same block, the regions of the object are
\* aligned, inside its blocks and clear of the footers, and overlap none of another
\* such object.
THEOREM RegionsAreOwned == BumpSpec => []RegionsOwned
  <1>1. BumpInit => MemoryInv /\ RegionsInv
    BY MemoryInit, RegionsInit
  <1>2. MemoryInv /\ RegionsInv /\ [BumpNext]_bumpVars => (MemoryInv /\ RegionsInv)'
    BY MemoryStep, RegionsStep
  <1>3. MemoryInv /\ RegionsInv => RegionsOwned
    BY RegionsInvImpliesOwned
  <1> QED
    BY <1>1, <1>2, <1>3, PTL DEF BumpSpec

=============================================================================
