----------------------------- MODULE MergedLists -----------------------------
(***************************************************************************)
(* The lists that can be merged without copying, chunked or linked:        *)
(* threads append to owning lists; with no thread in it a list is walked,  *)
(* compacted, merged into a list that owns nothing, and destroyed.  That   *)
(* list keeps the chunks, or the first nodes, which the others had then.   *)
(***************************************************************************)
EXTENDS OwningLists

CONSTANTS
  MaxLength, \* bound: the elements of all lists
  MaxMerges  \* bound: lists that were merged

VARIABLES
  kind,     \* the class of the lists: "chunked" or "linked"
  borrowed, \* the list without elements of its own: chunks, or first nodes
  sizeNo,   \* its sizeVal
  gone,     \* the lists that were destroyed
  merged    \* history: the lists that were merged, with what was in them

vars == <<callVars, chunkVars, linkVars, kind, borrowed, sizeNo, gone, merged>>

Init ==
  /\ CallInit /\ ChunkInit /\ LinkInit
  /\ kind \in {"chunked", "linked"}
  /\ borrowed = <<>> /\ sizeNo = 0 /\ gone = {} /\ merged = <<>>

-----------------------------------------------------------------------------
\* The elements of an owning list, oldest first, as positions.
PlacesIn(o) ==
  IF kind = "chunked"
  THEN FlattenSeq([c \in DOMAIN chunks[o] |-> [e \in DOMAIN chunks[o][c].elements |-> <<c, e>>]])
  ELSE Reverse(ChainFrom(first[o]))
ValueAt(o, p) ==
  IF kind = "chunked" THEN chunks[o][p[1]].elements[p[2]] ELSE nodes[p].value
Values(o) == [i \in DOMAIN PlacesIn(o) |-> ValueAt(o, PlacesIn(o)[i])]

Calls == FoldSet(LAMBDA o, n : n + sizeVal[o], 0, Owners)
           + Cardinality({t \in Threads : pc[t] \in {"swap", "grow", "again", "count"}})

Append_(t, o) ==
  /\ o \notin gone /\ Calls < MaxLength
  /\ IF kind = "chunked" THEN EmplaceChunked(t, o) /\ UNCHANGED linkVars
     ELSE EmplaceLinked(t, o) /\ UNCHANGED chunkVars
  /\ UNCHANGED <<kind, borrowed, sizeNo, gone, merged>>

Step(t) ==
  /\ IF kind = "chunked" THEN ChunkedStep(t) /\ UNCHANGED linkVars
     ELSE LinkedStep(t) /\ UNCHANGED chunkVars
  /\ UNCHANGED <<kind, borrowed, sizeNo, gone, merged>>

Prepare(o) ==
  /\ kind = "chunked" /\ o \notin gone
  /\ Reserve(o, MinChunk) \/ CompactLastChunk(o)
  /\ UNCHANGED <<linkVars, kind, borrowed, sizeNo, gone, merged>>

\* Mutant: a merge takes the place of what was merged before.
BorrowOnly(infos) == borrowed' = infos
\* Chunks are appended; first nodes are appended to a linked list, whose first is the last.
BorrowInfos(infos) ==
  borrowed' = IF kind = "chunked" THEN borrowed \o infos ELSE infos \o borrowed

Merge(o) ==
  /\ Quiet(o) /\ o \notin gone /\ Len(merged) < MaxMerges
  /\ BorrowInfos(IF kind = "chunked" THEN InfosOf(o) ELSE <<first[o]>>)
  /\ sizeNo' = sizeNo + sizeVal[o]
  /\ merged' = Append(merged, [list |-> o, values |-> Values(o)])
  /\ UNCHANGED <<callVars, chunkVars, linkVars, kind, gone>>

Destroy(o) ==
  /\ Quiet(o) /\ o \notin gone
  /\ gone' = gone \cup {o}
  /\ UNCHANGED <<callVars, chunkVars, linkVars, kind, borrowed, sizeNo, merged>>

Next ==
  \/ \E t \in Threads : Step(t) \/ \E o \in Owners : Append_(t, o)
  \/ \E o \in Owners : Prepare(o) \/ Merge(o) \/ Destroy(o)

Spec == Init /\ [][Next]_vars

-----------------------------------------------------------------------------
\* The node that follows is known to its thread before it is linked.
Linked ==
  [n \in DOMAIN nodes |->
     IF \E t \in Threads : pc[t] = "next" /\ node[t] = n
     THEN old[CHOOSE t \in Threads : pc[t] = "next" /\ node[t] = n] ELSE nodes[n].next]
Chain(o) ==
  LET next[m \in 0 .. Len(nodes)] == IF m = NoNode THEN <<>> ELSE <<m>> \o next[Linked[m]]
  IN  Reverse(next[first[o]])

\* Who appends to a position, or has.
Appender(o, p) ==
  LET claimed == {t \in Threads : /\ owner[t] = o
                                  /\ \/ pc[t] = "assign" /\ kind = "chunked" /\ place[t] = p
                                     \/ pc[t] \in {"next", "assign"} /\ kind = "linked" /\ node[t] = p}
  IN  IF claimed = {} THEN ValueAt(o, p) ELSE CHOOSE t \in claimed : TRUE

Abstract(o) ==
  IF o \in gone THEN <<>>
  ELSE LET places == IF kind = "chunked" THEN PlacesIn(o) ELSE Chain(o)
       IN  [i \in DOMAIN places |-> Appender(o, places[i])]
Inside(o) == {t \in Threads : owner[t] = o /\ pc[t] \in {"next", "assign"}}

AL(o) == INSTANCE AppendList WITH list <- Abstract(o), calling <- Inside(o), MaxSize <- 1

\* Appending is atomic at the claim of a place and at the exchange: nothing that
\* was appended is lost or moved when a chunk is added or other threads append.
\* Every step of every list implements a step of AppendList.
StepRefines == \A o \in Owners : [AL(o)!Next]_<<Abstract(o), Inside(o)>>

\* The values that a walk visits; a walk that leaves the list visits Nobody.
Walk(begin, next(_), last(_), read(_), length) ==
  LET at[i \in 0 .. length] == IF i = 0 THEN begin ELSE IF last(at[i - 1]) THEN at[i - 1] ELSE next(at[i - 1])
  IN  <<last(at[length]), [i \in 1 .. length |-> read(at[i - 1])]>>

Filled(infos) == \A c \in DOMAIN infos : infos[c].end > 0

ChunkWalk(infos) ==
  Walk(BeginChunks, LAMBDA it : NextChunked(infos, it), LAMBDA it : IsLastChunked(infos, it),
       LAMBDA it : ReadChunked(infos, it), LengthOf(infos))
ChunkWalkBack(infos) ==
  Walk(EndChunks(infos), LAMBDA it : PreviousChunked(infos, it),
       LAMBDA it : it = BeginChunks, LAMBDA it : ReadChunked(infos, PreviousChunked(infos, it)),
       LengthOf(infos))
SlowWalk(o) ==
  Walk(SlowBegin(o), LAMBDA n : SlowNext(o, n), LAMBDA n : n = NoNode,
       LAMBDA n : nodes[n].value, sizeVal[o])

InBounds(o) == \A c \in DOMAIN chunks[o] : Len(chunks[o][c].elements) <= chunks[o][c].capacity

\* No element lies behind the memory of its chunk.  Once all calls on a list have
\* returned, its size, its walks in both directions and its indexes give the
\* elements that were appended, each once.
WalksExact ==
  \A o \in Owners : LET values == Values(o) IN
    /\ InBounds(o)
    /\ Quiet(o) /\ o \notin gone =>
        /\ sizeVal[o] = Len(values) /\ Nobody \notin ToSet(values)
        /\ kind = "chunked" /\ Filled(InfosOf(o)) =>
             /\ ChunkWalk(InfosOf(o)) = <<TRUE, values>>
             /\ ChunkWalkBack(InfosOf(o)) = <<TRUE, Reverse(values)>>
             /\ \A i \in 1 .. Len(values) : IndexChunked(o, i - 1) = values[i]
        /\ kind = "linked" =>
             /\ SlowWalk(o) = <<TRUE, values>>
             /\ \A i \in 1 .. Len(values) : IndexLinked(o, i - 1) = values[i]

\* The walk of the list that owns nothing, by first nodes.
LinkedWalk == FlattenSeq([b \in DOMAIN borrowed |-> [i \in DOMAIN ChainFrom(borrowed[b]) |->
                            nodes[ChainFrom(borrowed[b])[i]].value]])
Expected ==
  LET parts == [m \in DOMAIN merged |-> merged[m].values] IN
  IF kind = "chunked" THEN FlattenSeq(parts) ELSE Reverse(FlattenSeq(parts))

Lasting == \A m \in DOMAIN merged : merged[m].list \notin gone /\ merged[m].values # <<>>

\* A merged list shows what its lists held when they were merged, in their order,
\* also after more was appended to them, as long as they live and none was empty.
MergedExact ==
  Lasting =>
    /\ sizeNo = Len(Expected)
    /\ kind = "chunked" /\ Filled(borrowed) => ChunkWalk(borrowed) = <<TRUE, Expected>>
    /\ kind = "linked" => LinkedWalk = Expected

=============================================================================
