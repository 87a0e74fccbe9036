----------------------------- MODULE QueryCache -----------------------------
(***************************************************************************)
(* factDB/queryc: the C++ code of a query is written to a file of its own, *)
(* compiled to a library and loaded.  CxxCache remembers which file was    *)
(* compiled from which code, so that equal code is compiled only once.     *)
(* What it remembers is lost with the process; the next one rebuilds it    *)
(* from the files that it finds, and goes by their times of writing.       *)
(*                                                                         *)
(* Code is a model value; a library is the code that it was compiled from. *)
(* Time is the clock of the file system, which may stand still between two *)
(* writes.  A step is one access to the files.  The process may end at any *)
(* moment, and a compiler that runs ends with it without a library.        *)
(***************************************************************************)
EXTENDS Integers, FiniteSets, FiniteSetsExt, Functions

CONSTANTS
  Processes,  \* the processes that use the folder
  Codes,      \* the texts that queries compile to
  Empty,      \* the text of a file that was opened and not yet written
  MaxQueries, \* bound: queries, and so the numbers of files
  MaxTime     \* bound: the time of the file system

ASSUME EmptyAssumption == Empty \notin Codes
ASSUME BoundsAssumption == MaxQueries \in Nat /\ MaxTime \in Nat

VARIABLES
  sources,   \* the files query<n>.cpp: number -> [code, time]
  libraries, \* the files query<n>.cpp.so: number -> [code, time]
  time,      \* the time of the file system
  queries,   \* how many queries there were
  idx,       \* per process: globalQueryIdx
  cxx2file,  \* per process: code -> number of its file
  file2so,   \* per process: number -> the time of the library it was added with
  pc,        \* per process: where it is in the life of a query; "down" without process
  query      \* per process: the code asked for, its file, and the library chosen

fileVars == <<sources, libraries>>
cacheVars == <<idx, cxx2file, file2so>>
vars == <<fileVars, time, queries, cacheVars, pc, query>>

NoQuery == [code |-> Empty, file |-> 0, library |-> 0, loaded |-> Empty]
Nothing == [x \in {} |-> 0]
Goto(p, label) == pc' = [pc EXCEPT ![p] = label]
Put(f, x, value) == [y \in DOMAIN f \cup {x} |-> IF y = x THEN value ELSE f[y]]

Init ==
  /\ sources = Nothing
  /\ libraries = Nothing
  /\ time = 0
  /\ queries = 0
  /\ idx = [p \in Processes |-> 0]
  /\ cxx2file = [p \in Processes |-> Nothing]
  /\ file2so = [p \in Processes |-> Nothing]
  /\ pc = [p \in Processes |-> "down"]
  /\ query = [p \in Processes |-> NoQuery]

-----------------------------------------------------------------------------
(* The cache.                                                              *)

\* add() takes a file only if its library is younger than itself.
Usable(n) == n \in DOMAIN sources \cap DOMAIN libraries /\ sources[n].time < libraries[n].time

\* The number of a new file is above those of the files that were added.
FirstIndex(usable) == 0
HighestIndex(usable) == Max(usable \cup {0})

\* load() goes through the folder, in any order: of equal files one is kept.
Load(p) ==
  LET usable == {n \in DOMAIN sources : Usable(n)}
      codes == {sources[n].code : n \in usable}
  IN  /\ pc[p] = "down"
      /\ \E kept \in {f \in [codes -> usable] : \A c \in codes : sources[f[c]].code = c} :
           /\ cxx2file' = [cxx2file EXCEPT ![p] = kept]
           /\ file2so' = [file2so EXCEPT ![p] = [n \in Range(kept) |-> libraries[n].time]]
      /\ idx' = [idx EXCEPT ![p] = HighestIndex(usable)]
      /\ Goto(p, "idle")
      /\ UNCHANGED <<fileVars, time, queries, query>>

\* operator[]: the library, unless it was written since it was added.
StillThere(p, n) == file2so[p][n] = libraries[n].time
Hit(p, code) ==
  /\ code \in DOMAIN cxx2file[p]
  /\ cxx2file[p][code] \in DOMAIN file2so[p]
  /\ StillThere(p, cxx2file[p][code])

-----------------------------------------------------------------------------
(* A query.  Those that are not compiled take a number too.                *)

\* The number of the query: the counter is advanced first.
CurrentNumber(p) == idx[p]
NextNumber(p) == idx[p] + 1

Interpret(p) ==
  /\ pc[p] = "idle"
  /\ queries < MaxQueries
  /\ queries' = queries + 1
  /\ idx' = [idx EXCEPT ![p] = NextNumber(p)]
  /\ UNCHANGED <<fileVars, time, cxx2file, file2so, pc, query>>

\* QueryParseContext opens the file, which leaves it empty.
Open(p, code) ==
  /\ pc[p] = "idle"
  /\ queries < MaxQueries
  /\ queries' = queries + 1
  /\ idx' = [idx EXCEPT ![p] = NextNumber(p)]
  /\ query' = [query EXCEPT ![p] = [NoQuery EXCEPT !.code = code, !.file = NextNumber(p)]]
  /\ sources' = Put(sources, NextNumber(p), [code |-> Empty, time |-> time])
  /\ Goto(p, "generate")
  /\ UNCHANGED <<libraries, time, cxx2file, file2so>>

Generate(p) ==
  /\ pc[p] = "generate"
  /\ sources' = [sources EXCEPT ![query[p].file] = [code |-> query[p].code, time |-> time]]
  /\ Goto(p, "lookup")
  /\ UNCHANGED <<libraries, time, queries, cacheVars, query>>

\* CxxCompiler::compile goes by what is in the file.
Lookup(p) ==
  LET code == sources[query[p].file].code
  IN  /\ pc[p] = "lookup"
      /\ IF Hit(p, code)
         THEN /\ query' = [query EXCEPT ![p].library = cxx2file[p][code]]
              /\ Goto(p, "load")
         ELSE /\ query' = [query EXCEPT ![p].library = query[p].file]
              /\ Goto(p, "compile")
      /\ UNCHANGED <<fileVars, time, queries, cacheVars>>

Compile(p) ==
  /\ pc[p] = "compile"
  /\ libraries' = Put(libraries, query[p].file, [code |-> sources[query[p].file].code, time |-> time])
  /\ Goto(p, "add")
  /\ UNCHANGED <<sources, time, queries, cacheVars, query>>

\* add(): an entry of the same code stays.
Add(p) ==
  LET n == query[p].file
      code == sources[n].code
  IN  /\ pc[p] = "add"
      /\ IF Usable(n) /\ code \notin DOMAIN cxx2file[p]
         THEN /\ cxx2file' = [cxx2file EXCEPT ![p] = Put(@, code, n)]
              /\ file2so' = [file2so EXCEPT ![p] = Put(@, n, libraries[n].time)]
         ELSE UNCHANGED <<cxx2file, file2so>>
      /\ Goto(p, "load")
      /\ UNCHANGED <<fileVars, time, queries, idx, query>>

\* RawHandle: the library is loaded, called and closed.
LoadLibrary(p) ==
  /\ pc[p] = "load"
  /\ query' = [query EXCEPT ![p].loaded = libraries[query[p].library].code]
  /\ Goto(p, "run")
  /\ UNCHANGED <<fileVars, time, queries, cacheVars>>

Finish(p) ==
  /\ pc[p] = "run"
  /\ query' = [query EXCEPT ![p] = NoQuery]
  /\ Goto(p, "idle")
  /\ UNCHANGED <<fileVars, time, queries, cacheVars>>

-----------------------------------------------------------------------------
\* The end of the process, in order or not.
Die(p) ==
  /\ pc[p] # "down"
  /\ idx' = [idx EXCEPT ![p] = 0]
  /\ cxx2file' = [cxx2file EXCEPT ![p] = Nothing]
  /\ file2so' = [file2so EXCEPT ![p] = Nothing]
  /\ query' = [query EXCEPT ![p] = NoQuery]
  /\ Goto(p, "down")
  /\ UNCHANGED <<fileVars, time, queries>>

Tick ==
  /\ time < MaxTime
  /\ time' = time + 1
  /\ UNCHANGED <<fileVars, queries, cacheVars, pc, query>>

Next ==
  \/ \E p \in Processes :
       \/ Load(p) \/ Interpret(p) \/ Generate(p) \/ Lookup(p) \/ Compile(p)
       \/ Add(p) \/ LoadLibrary(p) \/ Finish(p) \/ Die(p)
  \/ \E p \in Processes, code \in Codes : Open(p, code)
  \/ Tick

Spec == Init /\ [][Next]_vars

-----------------------------------------------------------------------------
\* A query runs the code that was generated for it, whatever the processes
\* before left in the folder and whenever they ended.
RunsOwnCode == \A p \in Processes : pc[p] = "run" => query[p].loaded = query[p].code

\* Whatever the cache knows is there, was compiled from the code it is known
\* for and was not written since: no query writes to a file that the cache
\* answers with, and what is known need never be compiled again.
CacheExact ==
  \A p \in Processes : \A code \in DOMAIN cxx2file[p] :
    /\ Hit(p, code)
    /\ libraries[cxx2file[p][code]].code = code
=============================================================================
