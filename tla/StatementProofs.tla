--------------------------- MODULE StatementProofs --------------------------
(***************************************************************************)
(* Proofs about what becomes of statements.                                *)
(*                                                                         *)
(* QueryCache: every query runs the code that was generated for it, for    *)
(* every set of processes that use the folder of the compiled queries one  *)
(* after the other, every set of texts and any number of queries, restarts *)
(* and ticks.  What is loaded was chosen by the cache, which was filled    *)
(* from files that other processes left behind: a library that is younger  *)
(* than its source was compiled from it (YoungerIsExact), and no process   *)
(* writes to a file that its own cache answers with (KnownIsExact), since  *)
(* a new query has a number above all of them, even when the numbers start *)
(* anew.                                                                   *)
(*                                                                         *)
(* Session: for any relations, files, rows and versions, and any number of *)
(* statements, processes and runs of genTblFiles: what tables hold, and    *)
(* what a query reads.                                                     *)
(*                                                                         *)
(* ScriptExecution: for any scripts, and any number of processes.  What    *)
(* was read is the text before a place (Cursor); the queries of it ran, or *)
(* wait to be run, in the order of the text (WaitingInv), and the settings *)
(* are what the text says up to that place (SettingsInv).                  *)
(***************************************************************************)
EXTENDS QueryCache, Session, ScriptExecution, SequenceTheorems, FiniteSetTheorems, DataInduction

-----------------------------------------------------------------------------
(* QueryCache.                                                             *)

\* At any time one process at most uses the folder: globalQueryIdx is a variable of the process,
\* so that two at once would write to the same files.
OneAtATime == \A p, q \in Processes : pc[p] # "down" /\ pc[q] # "down" => p = q

-----------------------------------------------------------------------------
Texts == Codes \cup {Empty}
Labels == {"down", "idle", "generate", "lookup", "compile", "add", "load", "run"}

FilesTyped ==
  /\ queries \in Nat /\ time \in Nat
  /\ DOMAIN sources \subseteq 1 .. queries
  /\ DOMAIN libraries \subseteq DOMAIN sources
  /\ \A n \in DOMAIN sources : sources[n] \in [code : Texts, time : 0 .. time]
  /\ \A n \in DOMAIN libraries : libraries[n] \in [code : Texts, time : 0 .. time]

ProcessesTyped ==
  /\ idx \in [Processes -> 0 .. queries]
  /\ DOMAIN cxx2file = Processes /\ DOMAIN file2so = Processes
  /\ pc \in [Processes -> Labels]
  /\ query \in [Processes -> [code : Texts, file : Nat, library : Nat, loaded : Texts]]

\* What the times of the files say: a library that is younger than its source was compiled
\* from it.
YoungerIsExact ==
  \A n \in DOMAIN libraries :
    sources[n].time < libraries[n].time => libraries[n].code = sources[n].code

\* The query of p still writes to its file or to its library.
Writing(p) == pc[p] \in {"generate", "lookup", "compile", "add"}

\* The cache of p answers with libraries of the right code, and p does not touch them.
KnownIsExact(p) ==
  \A code \in DOMAIN cxx2file[p] :
    LET n == cxx2file[p][code]
    IN  /\ n \in DOMAIN libraries /\ n \in DOMAIN file2so[p]
        /\ file2so[p][n] = libraries[n].time
        /\ libraries[n].code = code
        /\ n <= idx[p]
        /\ Writing(p) => n # query[p].file

\* The query of p, from its file over its library to what was loaded.
QueryIsExact(p) ==
  /\ Writing(p) => query[p].file \in DOMAIN sources /\ query[p].file <= idx[p]
  /\ pc[p] \in {"lookup", "compile", "add"} => sources[query[p].file].code = query[p].code
  /\ pc[p] \in {"compile", "add"} => query[p].library = query[p].file
  /\ pc[p] \in {"add", "load"} => query[p].library \in DOMAIN libraries /\
                                  libraries[query[p].library].code = query[p].code
  /\ pc[p] = "run" => query[p].loaded = query[p].code

\* A process that is not there knows nothing.
ProcessInv(p) ==
  /\ KnownIsExact(p)
  /\ QueryIsExact(p)
  /\ pc[p] = "down" => DOMAIN cxx2file[p] = {}

CacheInv ==
  /\ FilesTyped
  /\ ProcessesTyped
  /\ YoungerIsExact
  /\ \A p \in Processes : ProcessInv(p)

-----------------------------------------------------------------------------
LEMMA InitIInv == Init => CacheInv
<1> SUFFICES ASSUME Init PROVE CacheInv
  OBVIOUS
<1>1. FilesTyped /\ ProcessesTyped /\ YoungerIsExact
  BY DEF Init, FilesTyped, ProcessesTyped, YoungerIsExact, Nothing, NoQuery, Texts, Labels
<1>2. ASSUME NEW p \in Processes PROVE ProcessInv(p)
  BY DEF Init, ProcessInv, KnownIsExact, QueryIsExact, Writing, Nothing
<1> QED
  BY <1>1, <1>2 DEF CacheInv

\* While a process works on the files, the others are not there.
LEMMA OthersAreDown ==
  ASSUME CacheInv, OneAtATime, NEW p \in Processes, pc[p] # "down",
         \A q \in Processes \ {p} : pc'[q] = pc[q] /\ cxx2file'[q] = cxx2file[q]
  PROVE  \A q \in Processes \ {p} : ProcessInv(q)'
<1> SUFFICES ASSUME NEW q \in Processes, q # p PROVE ProcessInv(q)'
  OBVIOUS
<1>1. pc'[q] = "down" /\ DOMAIN cxx2file'[q] = {}
  BY DEF OneAtATime, CacheInv, ProcessInv
<1> QED
  BY <1>1 DEF ProcessInv, KnownIsExact, QueryIsExact, Writing

\* A process is not disturbed by what leaves the files and its own state alone.
LEMMA Undisturbed ==
  ASSUME NEW q \in Processes, ProcessInv(q), UNCHANGED fileVars,
         idx'[q] = idx[q], cxx2file'[q] = cxx2file[q], file2so'[q] = file2so[q],
         pc'[q] = pc[q], query'[q] = query[q]
  PROVE  ProcessInv(q)'
BY DEF ProcessInv, KnownIsExact, QueryIsExact, Writing, fileVars

\* load() gives numbers from above all the files that it has found.
LEMMA HighestIsAbove ==
  ASSUME FilesTyped, NEW usable, usable \subseteq DOMAIN sources
  PROVE  /\ HighestIndex(usable) \in 0 .. queries
         /\ \A n \in usable : n <= HighestIndex(usable)
<1> DEFINE all == usable \cup {0}
<1>1. all \subseteq Nat /\ all # {} /\ queries \in Nat /\ \A n \in all : n <= queries
  BY DEF FilesTyped
<1>2. PICK m \in all : \A n \in all : n <= m
  BY <1>1, LargestExists
<1>3. m \in Int /\ \A n \in all : m >= n
  BY <1>1, <1>2
<1>4. Max(all) \in all /\ \A n \in all : Max(all) >= n
  BY <1>3 DEF Max
<1> QED
  BY <1>1, <1>4 DEF HighestIndex

LEMMA LoadIInv ==
  ASSUME CacheInv, NEW p \in Processes, Load(p)
  PROVE  CacheInv'
<1> DEFINE usable == {n \in DOMAIN sources : Usable(n)}
           codes == {sources[n].code : n \in usable}
<1>1. PICK kept \in [codes -> usable] :
        /\ \A c \in codes : sources[kept[c]].code = c
        /\ cxx2file' = [cxx2file EXCEPT ![p] = kept]
        /\ file2so' = [file2so EXCEPT ![p] = [n \in Range(kept) |-> libraries[n].time]]
  BY DEF Load
<1>2. /\ HighestIndex(usable) \in 0 .. queries
      /\ \A n \in usable : n <= HighestIndex(usable)
  BY HighestIsAbove DEF CacheInv
<1>3. /\ idx' = [idx EXCEPT ![p] = HighestIndex(usable)]
      /\ pc' = [pc EXCEPT ![p] = "idle"]
      /\ UNCHANGED <<fileVars, time, queries, query>>
  BY DEF Load, Goto
<1>4. FilesTyped' /\ YoungerIsExact'
  BY <1>3 DEF CacheInv, FilesTyped, YoungerIsExact, fileVars
<1>5. ProcessesTyped'
  BY <1>1, <1>2, <1>3 DEF CacheInv, ProcessesTyped, Labels
<1>6. ASSUME NEW q \in Processes, q # p PROVE ProcessInv(q)'
  BY <1>1, <1>3, <1>6, Undisturbed DEF CacheInv, ProcessesTyped
<1>7. KnownIsExact(p)'
  <2> SUFFICES ASSUME NEW c \in codes
               PROVE  LET n == kept[c]
                      IN  /\ n \in DOMAIN libraries /\ n \in Range(kept)
                          /\ libraries[n].code = c
                          /\ n <= HighestIndex(usable)
    BY <1>1, <1>3 DEF CacheInv, ProcessesTyped, KnownIsExact, Writing, fileVars
  <2>1. kept[c] \in usable /\ sources[kept[c]].code = c /\ kept[c] \in Range(kept)
    BY <1>1 DEF Range
  <2> QED
    BY <1>2, <2>1 DEF Usable, CacheInv, YoungerIsExact
<1>8. ProcessInv(p)'
  BY <1>3, <1>7 DEF CacheInv, ProcessesTyped, ProcessInv, QueryIsExact, Writing
<1> QED
  BY <1>4, <1>5, <1>6, <1>8 DEF CacheInv

LEMMA InterpretIInv ==
  ASSUME CacheInv, NEW p \in Processes, Interpret(p)
  PROVE  CacheInv'
<1>1. /\ idx[p] + 1 \in 0 .. queries + 1 /\ queries + 1 \in Nat
      /\ idx' = [idx EXCEPT ![p] = idx[p] + 1] /\ queries' = queries + 1
      /\ UNCHANGED <<fileVars, time, cxx2file, file2so, pc, query>>
  BY DEF Interpret, NextNumber, CacheInv, FilesTyped, ProcessesTyped
<1>2. FilesTyped' /\ YoungerIsExact' /\ ProcessesTyped'
  BY <1>1 DEF CacheInv, FilesTyped, YoungerIsExact, ProcessesTyped, fileVars
<1>3. ASSUME NEW q \in Processes, q # p PROVE ProcessInv(q)'
  BY <1>1, <1>3, Undisturbed DEF CacheInv, ProcessesTyped
<1>4. idx'[p] \in Nat /\ idx[p] \in Nat /\ idx[p] <= idx'[p] /\ pc[p] = "idle"
  BY <1>1 DEF Interpret, CacheInv, FilesTyped, ProcessesTyped
<1>5. \A code \in DOMAIN cxx2file[p] : cxx2file[p][code] \in Nat
  BY DEF CacheInv, ProcessInv, KnownIsExact, FilesTyped
<1>6. ProcessInv(p)'
  BY <1>1, <1>4, <1>5 DEF CacheInv, ProcessInv, KnownIsExact, QueryIsExact, Writing, fileVars
<1> QED
  BY <1>2, <1>3, <1>6 DEF CacheInv

\* A new query opens a file with a number above those that the cache answers with.
LEMMA OpenIInv ==
  ASSUME CacheInv, OneAtATime, NEW p \in Processes, NEW code \in Codes, Open(p, code)
  PROVE  CacheInv'
<1> DEFINE n == idx[p] + 1
<1>1. /\ n \in 1 .. queries + 1 /\ n \in Nat /\ queries + 1 \in Nat /\ idx[p] \in Nat
      /\ pc[p] = "idle"
      /\ idx' = [idx EXCEPT ![p] = n] /\ queries' = queries + 1
      /\ query' = [query EXCEPT ![p] = [NoQuery EXCEPT !.code = code, !.file = n]]
      /\ DOMAIN sources' = DOMAIN sources \cup {n}
      /\ \A m \in DOMAIN sources' :
           sources'[m] = IF m = n THEN [code |-> Empty, time |-> time] ELSE sources[m]
      /\ pc' = [pc EXCEPT ![p] = "generate"]
      /\ UNCHANGED <<libraries, time, cxx2file, file2so>>
  BY DEF Open, NextNumber, Goto, Put, CacheInv, FilesTyped, ProcessesTyped
<1>2. FilesTyped'
  BY <1>1 DEF CacheInv, FilesTyped, Texts
<1>3. ProcessesTyped'
  <2>1. idx' \in [Processes -> 0 .. queries']
    BY <1>1 DEF CacheInv, FilesTyped, ProcessesTyped
  <2>2. [NoQuery EXCEPT !.code = code, !.file = n] \in
          [code : Texts, file : Nat, library : Nat, loaded : Texts]
    BY <1>1 DEF NoQuery, Texts
  <2> QED
    BY <1>1, <2>1, <2>2 DEF CacheInv, ProcessesTyped, Labels
<1>4. YoungerIsExact'
  <2> SUFFICES ASSUME NEW m \in DOMAIN libraries, sources'[m].time < libraries[m].time
               PROVE  libraries[m].code = sources'[m].code
    BY <1>1 DEF YoungerIsExact
  <2>1. m # n
    BY <1>1 DEF CacheInv, FilesTyped
  <2> QED
    BY <1>1, <2>1 DEF CacheInv, FilesTyped, YoungerIsExact
<1>5. \A q \in Processes \ {p} : ProcessInv(q)'
  BY <1>1, OthersAreDown DEF CacheInv, ProcessesTyped
<1>6. KnownIsExact(p)'
  <2> SUFFICES ASSUME NEW c \in DOMAIN cxx2file[p]
               PROVE  cxx2file[p][c] <= n /\ cxx2file[p][c] # n
    BY <1>1 DEF CacheInv, ProcessesTyped, ProcessInv, KnownIsExact, NoQuery
  <2>1. cxx2file[p][c] <= idx[p] /\ cxx2file[p][c] \in Nat
    BY DEF CacheInv, ProcessInv, KnownIsExact, FilesTyped
  <2> QED
    BY <1>1, <2>1
<1>7. QueryIsExact(p)'
  BY <1>1 DEF CacheInv, ProcessesTyped, QueryIsExact, Writing, NoQuery
<1>8. ProcessInv(p)'
  BY <1>1, <1>6, <1>7 DEF CacheInv, ProcessesTyped, ProcessInv
<1> QED
  BY <1>2, <1>3, <1>4, <1>5, <1>8 DEF CacheInv

\* The text is written to a file of which no younger library is left.
LEMMA GenerateIInv ==
  ASSUME CacheInv, OneAtATime, NEW p \in Processes, Generate(p)
  PROVE  CacheInv'
<1> DEFINE n == query[p].file
<1>1. /\ n \in DOMAIN sources /\ n <= idx[p] /\ pc[p] = "generate" /\ Writing(p)
      /\ query[p].code \in Texts /\ time \in Nat
  BY DEF Generate, CacheInv, ProcessInv, QueryIsExact, Writing, ProcessesTyped, FilesTyped
<1>2. /\ DOMAIN sources' = DOMAIN sources
      /\ \A m \in DOMAIN sources' :
           sources'[m] = IF m = n THEN [code |-> query[p].code, time |-> time] ELSE sources[m]
      /\ pc' = [pc EXCEPT ![p] = "lookup"]
      /\ UNCHANGED <<libraries, time, queries, cacheVars, query>>
  BY <1>1 DEF Generate, Goto
<1>3. FilesTyped' /\ ProcessesTyped'
  BY <1>1, <1>2 DEF CacheInv, FilesTyped, ProcessesTyped, Labels, cacheVars
<1>4. YoungerIsExact'
  <2> SUFFICES ASSUME NEW m \in DOMAIN libraries, sources'[m].time < libraries[m].time
               PROVE  libraries[m].code = sources'[m].code
    BY <1>2 DEF YoungerIsExact
  <2>1. m # n
    BY <1>1, <1>2 DEF CacheInv, FilesTyped
  <2> QED
    BY <1>2, <2>1 DEF CacheInv, FilesTyped, YoungerIsExact
<1>5. \A q \in Processes \ {p} : ProcessInv(q)'
  BY <1>1, <1>2, OthersAreDown DEF CacheInv, ProcessesTyped, cacheVars
<1>6. ProcessInv(p)'
  BY <1>1, <1>2 DEF CacheInv, ProcessesTyped, ProcessInv, KnownIsExact, QueryIsExact, Writing, cacheVars
<1> QED
  BY <1>3, <1>4, <1>5, <1>6 DEF CacheInv

LEMMA LookupIInv ==
  ASSUME CacheInv, NEW p \in Processes, Lookup(p)
  PROVE  CacheInv'
<1> DEFINE code == query[p].code
<1>1. /\ pc[p] = "lookup" /\ Writing(p) /\ sources[query[p].file].code = code
      /\ UNCHANGED <<fileVars, time, queries, cacheVars>>
  BY DEF Lookup, CacheInv, ProcessInv, QueryIsExact, Writing
<1>2. PICK n \in Nat, label \in {"load", "compile"} :
        /\ query' = [query EXCEPT ![p].library = n]
        /\ pc' = [pc EXCEPT ![p] = label]
        /\ label = "load" => n \in DOMAIN libraries /\ libraries[n].code = code
        /\ label = "compile" => n = query[p].file
  <2>1. CASE Hit(p, code)
    <3>1. /\ cxx2file[p][code] \in DOMAIN libraries /\ cxx2file[p][code] \in Nat
          /\ libraries[cxx2file[p][code]].code = code
      BY <2>1 DEF Hit, CacheInv, ProcessInv, KnownIsExact, FilesTyped
    <3> QED
      BY <1>1, <2>1, <3>1 DEF Lookup, Goto
  <2>2. CASE ~Hit(p, code)
    BY <1>1, <2>2 DEF Lookup, Goto, CacheInv, ProcessesTyped
  <2> QED
    BY <2>1, <2>2
<1>3. FilesTyped' /\ YoungerIsExact' /\ ProcessesTyped'
  BY <1>1, <1>2 DEF CacheInv, FilesTyped, YoungerIsExact, ProcessesTyped, Labels, fileVars, cacheVars
<1>4. ASSUME NEW q \in Processes, q # p PROVE ProcessInv(q)'
  BY <1>1, <1>2, <1>4, Undisturbed DEF CacheInv, ProcessesTyped, cacheVars
<1>5. /\ query[p] \in [code : Texts, file : Nat, library : Nat, loaded : Texts]
      /\ pc'[p] \in {"load", "compile"} /\ query'[p].library = n
      /\ query'[p].code = code /\ query'[p].file = query[p].file
      /\ pc'[p] = label
  BY <1>2 DEF CacheInv, ProcessesTyped
<1>6. KnownIsExact(p)' /\ QueryIsExact(p)'
  BY <1>1, <1>2, <1>5
     DEF CacheInv, ProcessInv, KnownIsExact, QueryIsExact, Writing, fileVars, cacheVars
<1>7. ProcessInv(p)'
  BY <1>5, <1>6 DEF ProcessInv
<1> QED
  BY <1>3, <1>4, <1>7 DEF CacheInv

\* The library becomes that of the text that is in the file.
LEMMA CompileIInv ==
  ASSUME CacheInv, OneAtATime, NEW p \in Processes, Compile(p)
  PROVE  CacheInv'
<1> DEFINE n == query[p].file
<1>1. /\ n \in DOMAIN sources /\ n <= idx[p] /\ pc[p] = "compile" /\ Writing(p)
      /\ sources[n].code = query[p].code /\ sources[n].code \in Texts
      /\ query[p].library = n /\ time \in Nat
  BY DEF Compile, CacheInv, ProcessInv, QueryIsExact, Writing, FilesTyped
<1>2. /\ DOMAIN libraries' = DOMAIN libraries \cup {n}
      /\ \A m \in DOMAIN libraries' :
           libraries'[m] = IF m = n THEN [code |-> sources[n].code, time |-> time]
                           ELSE libraries[m]
      /\ pc' = [pc EXCEPT ![p] = "add"]
      /\ UNCHANGED <<sources, time, queries, cacheVars, query>>
  BY DEF Compile, Goto, Put
<1>3. FilesTyped' /\ ProcessesTyped'
  BY <1>1, <1>2 DEF CacheInv, FilesTyped, ProcessesTyped, Labels, cacheVars
<1>4. YoungerIsExact'
  BY <1>2 DEF CacheInv, YoungerIsExact
<1>5. \A q \in Processes \ {p} : ProcessInv(q)'
  BY <1>1, <1>2, OthersAreDown DEF CacheInv, ProcessesTyped, cacheVars
<1>6. ProcessInv(p)'
  BY <1>1, <1>2 DEF CacheInv, ProcessesTyped, ProcessInv, KnownIsExact, QueryIsExact, Writing, cacheVars
<1> QED
  BY <1>3, <1>4, <1>5, <1>6 DEF CacheInv

LEMMA AddIInv ==
  ASSUME CacheInv, NEW p \in Processes, Add(p)
  PROVE  CacheInv'
<1> DEFINE n == query[p].file
           code == sources[n].code
<1>1. /\ n \in DOMAIN sources /\ n <= idx[p] /\ pc[p] = "add" /\ Writing(p)
      /\ n \in DOMAIN libraries /\ libraries[n].code = code /\ code = query[p].code
      /\ query[p].library = n
      /\ pc' = [pc EXCEPT ![p] = "load"]
      /\ UNCHANGED <<fileVars, time, queries, idx, query>>
  BY DEF Add, Goto, CacheInv, ProcessInv, QueryIsExact, Writing
<1>2. /\ DOMAIN cxx2file' = Processes /\ DOMAIN file2so' = Processes
      /\ \A q \in Processes \ {p} : cxx2file'[q] = cxx2file[q] /\ file2so'[q] = file2so[q]
  BY DEF Add, CacheInv, ProcessesTyped
<1>3. FilesTyped' /\ YoungerIsExact' /\ ProcessesTyped'
  BY <1>1, <1>2 DEF CacheInv, FilesTyped, YoungerIsExact, ProcessesTyped, Labels, fileVars
<1>4. ASSUME NEW q \in Processes, q # p PROVE ProcessInv(q)'
  BY <1>1, <1>2, <1>4, Undisturbed DEF CacheInv, ProcessesTyped
<1>5. pc'[p] = "load"
  BY <1>1 DEF CacheInv, ProcessesTyped
<1>6. KnownIsExact(p)'
  <2>1. CASE Usable(n) /\ code \notin DOMAIN cxx2file[p]
    <3>1. /\ cxx2file'[p] = Put(cxx2file[p], code, n)
          /\ file2so'[p] = Put(file2so[p], n, libraries[n].time)
      BY <2>1 DEF Add, CacheInv, ProcessesTyped
    <3>2. ASSUME NEW c \in DOMAIN cxx2file'[p]
          PROVE  LET m == cxx2file'[p][c]
                 IN  /\ m \in DOMAIN libraries /\ m \in DOMAIN file2so'[p]
                     /\ file2so'[p][m] = libraries[m].time
                     /\ libraries[m].code = c
                     /\ m <= idx[p]
      <4>1. CASE c = code
        BY <1>1, <3>1, <4>1 DEF Put
      <4>2. CASE c # code
        <5> DEFINE m == cxx2file[p][c]
        <5>1. c \in DOMAIN cxx2file[p] /\ cxx2file'[p][c] = m
          BY <1>1, <3>1, <4>2 DEF Put
        <5>2. /\ m \in DOMAIN libraries /\ m \in DOMAIN file2so[p]
              /\ file2so[p][m] = libraries[m].time
              /\ libraries[m].code = c
              /\ m <= idx[p] /\ m # n
          BY <1>1, <5>1 DEF CacheInv, ProcessInv, KnownIsExact
        <5> HIDE DEF m
        <5>3. m \in DOMAIN file2so'[p] /\ file2so'[p][m] = file2so[p][m]
          BY <3>1, <5>2 DEF Put
        <5> QED
          BY <5>1, <5>2, <5>3
      <4> QED
        BY <4>1, <4>2
    <3> QED
      BY <1>1, <1>5, <3>2 DEF KnownIsExact, Writing, fileVars
  <2>2. CASE ~(Usable(n) /\ code \notin DOMAIN cxx2file[p])
    <3>1. cxx2file' = cxx2file /\ file2so' = file2so
      BY <2>2 DEF Add
    <3> QED
      BY <1>1, <1>5, <3>1 DEF CacheInv, ProcessInv, KnownIsExact, Writing, fileVars
  <2> QED
    BY <2>1, <2>2
<1>7. ProcessInv(p)'
  BY <1>1, <1>5, <1>6 DEF ProcessInv, QueryIsExact, Writing, fileVars
<1> QED
  BY <1>3, <1>4, <1>7 DEF CacheInv

LEMMA LoadLibraryIInv ==
  ASSUME CacheInv, NEW p \in Processes, LoadLibrary(p)
  PROVE  CacheInv'
<1> DEFINE n == query[p].library
<1>1. /\ pc[p] = "load" /\ n \in DOMAIN libraries /\ libraries[n].code = query[p].code
      /\ libraries[n].code \in Texts
      /\ query' = [query EXCEPT ![p].loaded = libraries[n].code]
      /\ pc' = [pc EXCEPT ![p] = "run"]
      /\ UNCHANGED <<fileVars, time, queries, cacheVars>>
  BY DEF LoadLibrary, Goto, CacheInv, ProcessInv, QueryIsExact, FilesTyped
<1>2. FilesTyped' /\ YoungerIsExact' /\ ProcessesTyped'
  BY <1>1 DEF CacheInv, FilesTyped, YoungerIsExact, ProcessesTyped, Labels, fileVars, cacheVars
<1>3. ASSUME NEW q \in Processes, q # p PROVE ProcessInv(q)'
  BY <1>1, <1>3, Undisturbed DEF CacheInv, ProcessesTyped, cacheVars
<1>4. pc'[p] = "run" /\ query'[p].loaded = query'[p].code
  BY <1>1 DEF CacheInv, ProcessesTyped
<1>5. ProcessInv(p)'
  BY <1>1, <1>4 DEF CacheInv, ProcessInv, KnownIsExact, QueryIsExact, Writing, fileVars, cacheVars
<1> QED
  BY <1>2, <1>3, <1>5 DEF CacheInv

LEMMA FinishIInv ==
  ASSUME CacheInv, NEW p \in Processes, Finish(p)
  PROVE  CacheInv'
<1>1. /\ query' = [query EXCEPT ![p] = NoQuery] /\ pc' = [pc EXCEPT ![p] = "idle"]
      /\ UNCHANGED <<fileVars, time, queries, cacheVars>>
  BY DEF Finish, Goto
<1>2. FilesTyped' /\ YoungerIsExact' /\ ProcessesTyped'
  BY <1>1 DEF CacheInv, FilesTyped, YoungerIsExact, ProcessesTyped, NoQuery, Texts, Labels,
              fileVars, cacheVars
<1>3. ASSUME NEW q \in Processes, q # p PROVE ProcessInv(q)'
  BY <1>1, <1>3, Undisturbed DEF CacheInv, ProcessesTyped, cacheVars
<1>4. pc'[p] = "idle"
  BY <1>1 DEF CacheInv, ProcessesTyped
<1>5. ProcessInv(p)'
  BY <1>1, <1>4 DEF CacheInv, ProcessInv, KnownIsExact, QueryIsExact, Writing, fileVars, cacheVars
<1> QED
  BY <1>2, <1>3, <1>5 DEF CacheInv

LEMMA DieIInv ==
  ASSUME CacheInv, NEW p \in Processes, Die(p)
  PROVE  CacheInv'
<1>1. /\ idx' = [idx EXCEPT ![p] = 0] /\ cxx2file' = [cxx2file EXCEPT ![p] = Nothing]
      /\ file2so' = [file2so EXCEPT ![p] = Nothing]
      /\ query' = [query EXCEPT ![p] = NoQuery] /\ pc' = [pc EXCEPT ![p] = "down"]
      /\ UNCHANGED <<fileVars, time, queries>>
  BY DEF Die, Goto
<1>2. FilesTyped' /\ YoungerIsExact' /\ ProcessesTyped'
  BY <1>1 DEF CacheInv, FilesTyped, YoungerIsExact, ProcessesTyped, NoQuery, Texts, Labels, fileVars
<1>3. ASSUME NEW q \in Processes, q # p PROVE ProcessInv(q)'
  BY <1>1, <1>3, Undisturbed DEF CacheInv, ProcessesTyped
<1>4. pc'[p] = "down" /\ DOMAIN cxx2file'[p] = {}
  BY <1>1 DEF CacheInv, ProcessesTyped, Nothing
<1>5. ProcessInv(p)'
  BY <1>4 DEF ProcessInv, KnownIsExact, QueryIsExact, Writing
<1> QED
  BY <1>2, <1>3, <1>5 DEF CacheInv

LEMMA TickIInv == CacheInv /\ Tick => CacheInv'
<1> SUFFICES ASSUME CacheInv, Tick PROVE CacheInv'
  OBVIOUS
<1>1. UNCHANGED <<fileVars, queries, cacheVars, pc, query>> /\ time' = time + 1 /\ time \in Nat
  BY DEF Tick, CacheInv, FilesTyped
<1>2. FilesTyped' /\ YoungerIsExact' /\ ProcessesTyped'
  BY <1>1 DEF CacheInv, FilesTyped, YoungerIsExact, ProcessesTyped, fileVars, cacheVars
<1>3. ASSUME NEW q \in Processes PROVE ProcessInv(q)'
  BY <1>1, <1>3, Undisturbed DEF CacheInv, cacheVars
<1> QED
  BY <1>2, <1>3 DEF CacheInv

LEMMA StutterIInv == CacheInv /\ UNCHANGED vars => CacheInv'
<1> SUFFICES ASSUME CacheInv, UNCHANGED vars PROVE CacheInv'
  OBVIOUS
<1>1. UNCHANGED <<fileVars, time, queries, cacheVars, pc, query>>
  BY DEF vars
<1>2. FilesTyped' /\ YoungerIsExact' /\ ProcessesTyped'
  BY <1>1 DEF CacheInv, FilesTyped, YoungerIsExact, ProcessesTyped, fileVars, cacheVars
<1>3. ASSUME NEW q \in Processes PROVE ProcessInv(q)'
  BY <1>1, <1>3, Undisturbed DEF CacheInv, cacheVars
<1> QED
  BY <1>2, <1>3 DEF CacheInv

LEMMA StepIInv == CacheInv /\ OneAtATime /\ [Next]_vars => CacheInv'
<1> SUFFICES ASSUME CacheInv, OneAtATime, [Next]_vars PROVE CacheInv'
  OBVIOUS
<1>1. ASSUME NEW p \in Processes, Load(p) \/ Interpret(p) \/ Generate(p) \/ Lookup(p) \/ Compile(p)
      PROVE  CacheInv'
  BY <1>1, LoadIInv, InterpretIInv, GenerateIInv, LookupIInv, CompileIInv
<1>2. ASSUME NEW p \in Processes, Add(p) \/ LoadLibrary(p) \/ Finish(p) \/ Die(p)
      PROVE  CacheInv'
  BY <1>2, AddIInv, LoadLibraryIInv, FinishIInv, DieIInv
<1>3. ASSUME NEW p \in Processes, NEW code \in Codes, Open(p, code) PROVE CacheInv'
  BY <1>3, OpenIInv
<1>4. CASE Tick
  BY <1>4, TickIInv
<1>5. CASE UNCHANGED vars
  BY <1>5, StutterIInv
<1> QED
  BY <1>1, <1>2, <1>3, <1>4, <1>5 DEF Next

-----------------------------------------------------------------------------
\* The files, the caches and the queries stay in step (CxxCache::load, add and operator[], and
\* QueryParseContext::compileAndExecuteVisitor) as long as no two processes share the folder.
THEOREM CacheStaysInStep == Spec /\ []OneAtATime => []CacheInv
BY InitIInv, StepIInv, PTL DEF Spec

\* A query runs the code that was generated for it, whatever the processes before it left in
\* the folder, whenever they ended and however slow the clock of the files is.
THEOREM QueriesRunTheirCode == Spec /\ []OneAtATime => []RunsOwnCode
<1>1. CacheInv => RunsOwnCode
  BY DEF CacheInv, ProcessInv, QueryIsExact, RunsOwnCode
<1> QED
  BY <1>1, CacheStaysInStep, PTL

\* What the cache knows can be used: its library is there, was not written since and has the
\* code that it is known for, so that equal code is never compiled twice by one process.
THEOREM CacheIsExact == Spec /\ []OneAtATime => []CacheExact
<1>1. CacheInv => CacheExact
  BY DEF CacheInv, ProcessInv, KnownIsExact, CacheExact, Hit, StillThere
<1> QED
  BY <1>1, CacheStaysInStep, PTL

-----------------------------------------------------------------------------
(* Session.                                                                *)

Versions == 1 .. MaxVersion
Row == Files \X Nat \X Nat

\* The first rows of a version of the text, or all of them.
FirstRows(f, rows) == \E version \in Versions, n \in 0 .. NumRows : rows = Between(f, version, 0, n)

\* What genTblFiles wrote and what it still holds are together the first rows of a version.
ToolWrote ==
  \E version \in Versions, m \in 0 .. NumRows : \E n \in m .. NumRows :
    /\ tbl[tool.file] = Between(tool.file, version, 0, m)
    /\ tool.rows = Between(tool.file, version, m, n)

TextsInv ==
  /\ csv \in [Files -> 0 .. MaxVersion]
  /\ DOMAIN tbl = Files
  /\ \A f \in Files : tbl[f] = NoFile \/ FirstRows(f, tbl[f])
  /\ DOMAIN tool = {"at", "file", "rows"}
  /\ tool.at \in {"idle", "open", "write"}
  /\ tool.at # "idle" => tool.file \in Files
  /\ tool.at = "open" => FirstRows(tool.file, tool.rows)
  /\ tool.at = "write" => ToolWrote

\* A table that is loaded has a file; its rows are those of a version and, without a ".tbl",
\* all that the text held at some time since the COPY.
TableInv(i) ==
  IF tables[i].loaded
  THEN /\ filepaths[i] \in Files
       /\ FirstRows(filepaths[i], tables[i].data)
       /\ tbl[filepaths[i]] = NoFile => tables[i].data \in since[i]
  ELSE tables[i].data = <<>>

TablesInv ==
  /\ built \in Seq(Names)
  /\ schemas \in Seq(Names)
  /\ filepaths \in Seq(Files \cup {NoFile})
  /\ since \in Seq(SUBSET Seq(Row))
  /\ DOMAIN filepaths = Ids /\ DOMAIN since = Ids
  /\ DOMAIN tables \subseteq Ids
  /\ \A i \in Ids :
       filepaths[i] # NoFile =>
         csv[filepaths[i]] # 0 /\ Rows(filepaths[i], csv[filepaths[i]]) \in since[i]
  /\ \A i \in DOMAIN tables : TableInv(i)

\* A query is over relations that have a table and a file; what it needs is loaded or still to load.
PhaseInv ==
  /\ ~fault
  /\ sessionPc = "load" => toLoad \subseteq current.relations
  /\ sessionPc \in {"load", "optimize", "execute"} =>
       \A i \in current.relations :
         /\ i \in DOMAIN tables /\ filepaths[i] # NoFile
         /\ NeedsTables(current.kind) => tables[i].loaded \/ (sessionPc = "load" /\ i \in toLoad)

-----------------------------------------------------------------------------
\* Between as a sequence: its first row, its other rows, and one row more.
LEMMA BetweenIsSeq ==
  ASSUME NEW f \in Files, NEW version \in Nat, NEW m \in Nat, NEW n \in Nat, m <= n
  PROVE  /\ Between(f, version, m, n) \in Seq(Row)
         /\ Len(Between(f, version, m, n)) = n - m
         /\ \A k \in 1 .. n - m : Between(f, version, m, n)[k] = <<f, version, m + k>>
<1>1. n - m \in Nat
  OBVIOUS
<1>2. \A k \in 1 .. n - m : <<f, version, m + k>> \in Row
  BY DEF Row
<1>3. Between(f, version, m, n) \in [1 .. n - m -> Row]
  BY <1>2 DEF Between
<1>4. Between(f, version, m, n) \in Seq(Row)
  BY <1>1, <1>3, SeqDef
<1>5. Len(Between(f, version, m, n)) = n - m
  BY <1>1, <1>3, <1>4, LenProperties
<1> QED
  BY <1>4, <1>5 DEF Between

LEMMA FrontIsSeq ==
  ASSUME NEW f \in Files, NEW version \in Nat, NEW n \in Nat
  PROVE  /\ Between(f, version, 0, n) \in Seq(Row)
         /\ Len(Between(f, version, 0, n)) = n
         /\ \A k \in 1 .. n : Between(f, version, 0, n)[k] = <<f, version, k>>
<1> DEFINE front == Between(f, version, 0, n)
<1>1. 0 <= n /\ 0 \in Nat
  OBVIOUS
<1>2. /\ front \in Seq(Row) /\ Len(front) = n - 0
      /\ \A k \in 1 .. n - 0 : front[k] = <<f, version, 0 + k>>
  BY <1>1, BetweenIsSeq, ZenonT(60)
<1> HIDE DEF front
<1>3. n - 0 = n /\ \A k \in 1 .. n : 0 + k = k
  OBVIOUS
<1>4. front \in Seq(Row) /\ Len(front) = n /\ \A k \in 1 .. n : front[k] = <<f, version, k>>
  BY <1>2, <1>3
<1> QED
  BY <1>4 DEF front

LEMMA BetweenMoves ==
  ASSUME NEW f \in Files, NEW version \in Nat, NEW m \in Nat, NEW n \in Nat, m < n
  PROVE  /\ Append(Between(f, version, 0, m), Head(Between(f, version, m, n))) = Between(f, version, 0, m + 1)
         /\ Tail(Between(f, version, m, n)) = Between(f, version, m + 1, n)
<1> DEFINE front == Between(f, version, 0, m)
           rest == Between(f, version, m, n)
           head == <<f, version, m + 1>>
<1>1. /\ rest \in Seq(Row) /\ Len(rest) = n - m /\ rest # <<>>
      /\ \A k \in 1 .. n - m : rest[k] = <<f, version, m + k>>
  <2>1. m <= n /\ n - m # 0
    OBVIOUS
  <2>2. rest \in Seq(Row) /\ Len(rest) = n - m /\ \A k \in 1 .. n - m : rest[k] = <<f, version, m + k>>
    BY <2>1, BetweenIsSeq, ZenonT(60)
  <2> HIDE DEF rest
  <2>3. rest # <<>>
    BY <2>1, <2>2, EmptySeq
  <2> QED
    BY <2>2, <2>3
<1>2. Head(rest) = head
  <2> HIDE DEF rest
  <2>1. Head(rest) = rest[1] /\ 1 \in 1 .. n - m
    BY <1>1
  <2> QED
    BY <1>1, <2>1
<1>3. front \in Seq(Row) /\ Len(front) = m /\ \A k \in 1 .. m : front[k] = <<f, version, k>>
  BY FrontIsSeq
<1>4. Append(front, head) = Between(f, version, 0, m + 1)
  <2>1. head \in Row
    BY DEF Row
  <2> DEFINE more == Between(f, version, 0, m + 1)
  <2>2. more \in Seq(Row) /\ Len(more) = m + 1 /\ \A k \in 1 .. m + 1 : more[k] = <<f, version, k>>
    <3>1. m + 1 \in Nat
      OBVIOUS
    <3> QED
      BY <3>1, FrontIsSeq
  <2>3. /\ Append(front, head) \in Seq(Row) /\ Len(Append(front, head)) = m + 1
        /\ \A k \in 1 .. m : Append(front, head)[k] = front[k]
        /\ Append(front, head)[m + 1] = head
    BY <1>3, <2>1, AppendProperties
  <2> HIDE DEF more, front, head
  <2>4. \A k \in 1 .. m + 1 : Append(front, head)[k] = more[k]
    <3>1. \A k \in 1 .. m + 1 : k \in 1 .. m \/ k = m + 1
      OBVIOUS
    <3>2. head = <<f, version, m + 1>> /\ m + 1 \in 1 .. m + 1 /\ \A k \in 1 .. m : k \in 1 .. m + 1
      BY DEF head
    <3> QED
      BY <1>3, <2>2, <2>3, <3>1, <3>2
  <2> QED
    BY <2>2, <2>3, <2>4, SeqEqual DEF more
<1>5. Tail(rest) = Between(f, version, m + 1, n)
  <2> DEFINE less == Between(f, version, m + 1, n)
  <2>1. m + 1 \in Nat /\ m + 1 <= n /\ n - (m + 1) = n - m - 1
    OBVIOUS
  <2>2. /\ less \in Seq(Row) /\ Len(less) = n - m - 1
        /\ \A k \in 1 .. n - m - 1 : less[k] = <<f, version, (m + 1) + k>>
    <3>1. PICK p \in Nat : p = m + 1
      BY <2>1
    <3>2. p \in Nat /\ p <= n
      BY <2>1, <3>1
    <3>3. less = Between(f, version, p, n)
      BY <3>1
    <3> HIDE DEF front, rest, head, less
    <3>4. less \in Seq(Row) /\ Len(less) = n - p
      BY <3>2, <3>3, BetweenIsSeq, ZenonT(60)
    <3>5. n - p = n - m - 1
      BY <2>1, <3>1
    <3>6. \A k \in 1 .. n - p : less[k] = <<f, version, p + k>>
      BY <3>3 DEF Between
    <3>7. \A k \in 1 .. n - m - 1 : less[k] = <<f, version, p + k>>
      BY <3>5, <3>6
    <3> QED
      BY <3>1, <3>4, <3>5, <3>7
  <2>3. /\ Tail(rest) \in Seq(Row) /\ Len(Tail(rest)) = n - m - 1
        /\ \A k \in 1 .. n - m - 1 : Tail(rest)[k] = rest[k + 1]
    BY <1>1, HeadTailProperties
  <2>4. \A k \in 1 .. n - m - 1 : k + 1 \in 1 .. n - m /\ m + (k + 1) = (m + 1) + k
    OBVIOUS
  <2> HIDE DEF less, rest
  <2>5. \A k \in 1 .. n - m - 1 : Tail(rest)[k] = less[k]
    BY <1>1, <2>2, <2>3, <2>4
  <2> QED
    BY <2>2, <2>3, <2>5, SeqEqual DEF less
<1> QED
  BY <1>2, <1>4, <1>5

LEMMA NothingBetween == \A f, version, m : m \in Nat => Between(f, version, m, m) = <<>>
  BY DEF Between

LEMMA FirstRowsArePrefix ==
  ASSUME NEW f \in Files, NEW rows, FirstRows(f, rows)
  PROVE  \E version \in Versions : IsPrefix(rows, Rows(f, version))
<1>1. PICK version \in Versions, n \in 0 .. NumRows : rows = Between(f, version, 0, n)
  BY DEF FirstRows
<1>2. version \in Nat /\ n \in Nat /\ NumRows \in Nat /\ n <= NumRows
  BY RowsAssumption DEF Versions
<1> DEFINE all == Between(f, version, 0, NumRows)
<1>3. rows \in Seq(Row) /\ Len(rows) = n /\ \A k \in 1 .. n : rows[k] = <<f, version, k>>
  BY <1>1, <1>2, FrontIsSeq
<1>4. all \in Seq(Row) /\ Len(all) = NumRows /\ \A k \in 1 .. NumRows : all[k] = <<f, version, k>>
  BY <1>2, FrontIsSeq
<1> HIDE DEF all
<1>5. SubSeq(rows, 1, n) = rows
  BY <1>3, SubSeqFull
<1>6. SubSeq(all, 1, n) = rows
  <2>1. \A k \in 1 .. n : all[k] \in Row
    BY <1>2, <1>4, ElementOfSeq
  <2>2. /\ SubSeq(all, 1, n) \in Seq(Row)
        /\ Len(SubSeq(all, 1, n)) = (IF 1 <= n THEN n - 1 + 1 ELSE 0)
        /\ \A k \in 1 .. n - 1 + 1 : SubSeq(all, 1, n)[k] = all[1 + k - 1]
    BY <1>2, <2>1, SubSeqProperties
  <2>3. Len(SubSeq(all, 1, n)) = n /\ \A k \in 1 .. n : SubSeq(all, 1, n)[k] = all[k]
    BY <1>2, <2>2
  <2>4. \A k \in 1 .. n : SubSeq(all, 1, n)[k] = rows[k]
    <3>1. \A k \in 1 .. n : k \in 1 .. NumRows
      BY <1>2
    <3> QED
      BY <1>3, <1>4, <2>3, <3>1
  <2> QED
    BY <1>3, <2>2, <2>3, <2>4, SeqEqual
<1>7. IsPrefix(rows, all)
  BY <1>2, <1>3, <1>4, <1>5, <1>6 DEF IsPrefix
<1> QED
  BY <1>7 DEF all, Rows

\* All rows of a version that the file has.
LEMMA RowsAreFirst ==
  ASSUME TextsInv, NEW f \in Files, csv[f] # 0
  PROVE  /\ csv[f] \in Versions
         /\ FirstRows(f, Rows(f, csv[f]))
         /\ Rows(f, csv[f]) \in Seq(Row)
         /\ <<>> \o Rows(f, csv[f]) = Rows(f, csv[f])
<1>1. csv[f] \in 0 .. MaxVersion /\ MaxVersion \in Nat /\ NumRows \in Nat
  BY RowsAssumption DEF TextsInv
<1>2. csv[f] \in Versions
  BY <1>1 DEF Versions
<1>3. NumRows \in 0 .. NumRows
  BY <1>1
<1>4. FirstRows(f, Rows(f, csv[f]))
  BY <1>2, <1>3 DEF FirstRows, Rows
<1>5. Rows(f, csv[f]) \in Seq(Row)
  <2>1. csv[f] \in Nat
    BY <1>1
  <2> QED
    BY <1>1, <2>1, FrontIsSeq DEF Rows
<1> QED
  BY <1>2, <1>4, <1>5, ConcatEmptySeq

LEMMA TextsInitial == SessionInit => TextsInv
<1> SUFFICES ASSUME SessionInit PROVE TextsInv
  OBVIOUS
<1>1. csv \in [Files -> 0 .. MaxVersion]
  <2>1. {0, 1} \subseteq 0 .. MaxVersion
    BY RowsAssumption
  <2> QED
    BY <2>1 DEF SessionInit
<1> QED
  BY <1>1 DEF SessionInit, TextsInv

LEMMA TablesInitial == SessionInit => TablesInv
<1> SUFFICES ASSUME SessionInit PROVE TablesInv
  OBVIOUS
<1>1. FirstNames \in Seq(Names) /\ Len(FirstNames) \in Nat /\ DOMAIN FirstNames = 1 .. Len(FirstNames)
  BY NamesAssumption, LenProperties
<1>2. filepaths \in Seq(Files \cup {NoFile})
  <2>1. filepaths \in [1 .. Len(FirstNames) -> Files \cup {NoFile}]
    BY <1>1 DEF SessionInit
  <2> QED
    BY <1>1, <2>1, SeqDef
<1>3. since \in Seq(SUBSET Seq(Row))
  <2>1. since \in [1 .. Len(FirstNames) -> SUBSET Seq(Row)]
    BY <1>1 DEF SessionInit
  <2> QED
    BY <1>1, <2>1, SeqDef
<1> QED
  BY <1>1, <1>2, <1>3 DEF SessionInit, TablesInv, TableInv, Ids, EmptyTable

LEMMA PhaseInitial == SessionInit => PhaseInv
  BY DEF SessionInit, PhaseInv

-----------------------------------------------------------------------------
\* Steps of the files.

LEMMA TextsAlone == ASSUME TextsInv, UNCHANGED <<csv, tbl, tool>> PROVE TextsInv'
<1>1. \A f \in Files : FirstRows(f, tbl[f])' <=> FirstRows(f, tbl[f])
  BY DEF FirstRows
<1>2. FirstRows(tool.file, tool.rows)' <=> FirstRows(tool.file, tool.rows)
  BY DEF FirstRows
<1>3. ToolWrote' <=> ToolWrote
  BY DEF ToolWrote
<1> QED
  BY <1>1, <1>2, <1>3 DEF TextsInv

LEMMA TextsStep ==
  ASSUME TextsInv, NEW f \in Files, WriteText(f) PROVE TextsInv'
<1>1. /\ csv[f] < MaxVersion /\ csv' = [csv EXCEPT ![f] = @ + 1]
      /\ UNCHANGED <<tbl, tool>>
  BY DEF WriteText
<1>2. csv' \in [Files -> 0 .. MaxVersion]
  <2>1. csv[f] \in 0 .. MaxVersion /\ MaxVersion \in Nat
    BY RowsAssumption DEF TextsInv
  <2>2. csv[f] + 1 \in 0 .. MaxVersion
    BY <1>1, <2>1
  <2> QED
    BY <1>1, <2>2 DEF TextsInv
<1>3. \A g \in Files : FirstRows(g, tbl[g])' <=> FirstRows(g, tbl[g])
  BY <1>1 DEF FirstRows
<1>4. FirstRows(tool.file, tool.rows)' <=> FirstRows(tool.file, tool.rows)
  BY <1>1 DEF FirstRows
<1>5. ToolWrote' <=> ToolWrote
  BY <1>1 DEF ToolWrote
<1> QED
  BY <1>1, <1>2, <1>3, <1>4, <1>5 DEF TextsInv

LEMMA ToolReadsStep ==
  ASSUME TextsInv, NEW f \in Files, ToolReads(f) PROVE TextsInv'
<1>1. /\ csv[f] # 0 /\ UNCHANGED <<csv, tbl>>
      /\ tool' = [at |-> "open", file |-> f, rows |-> IF tbl[f] # NoFile THEN tbl[f] ELSE Rows(f, csv[f])]
  BY DEF ToolReads
<1>2. FirstRows(f, tool'.rows)
  BY <1>1, RowsAreFirst DEF TextsInv
<1>3. \A g \in Files : FirstRows(g, tbl[g])' <=> FirstRows(g, tbl[g])
  BY <1>1 DEF FirstRows
<1>4. FirstRows(tool.file, tool.rows)'
  BY <1>1, <1>2 DEF FirstRows
<1> QED
  BY <1>1, <1>3, <1>4 DEF TextsInv

LEMMA ToolOpensStep == ASSUME TextsInv, ToolOpens PROVE TextsInv'
<1>1. /\ tool.at = "open" /\ UNCHANGED csv
      /\ tbl' = [tbl EXCEPT ![tool.file] = <<>>]
      /\ tool' = [tool EXCEPT !.at = "write"]
  BY DEF ToolOpens, Opened
<1>2. tool'.at = "write" /\ tool'.file = tool.file /\ tool'.rows = tool.rows /\ DOMAIN tool' = DOMAIN tool
  BY <1>1 DEF TextsInv
<1>3. PICK version \in Versions, n \in 0 .. NumRows : tool.rows = Between(tool.file, version, 0, n)
  BY <1>1 DEF TextsInv, FirstRows
<1>4. tool.file \in Files /\ tbl'[tool.file] = <<>>
  BY <1>1 DEF TextsInv
<1>5. 0 \in 0 .. NumRows /\ n \in 0 .. NumRows
  BY <1>3, RowsAssumption
<1>6. <<>> = Between(tool.file, version, 0, 0)
  BY NothingBetween
<1>7. ToolWrote'
  BY <1>2, <1>3, <1>4, <1>5, <1>6 DEF ToolWrote
<1>8. \A g \in Files : tbl'[g] = NoFile \/ FirstRows(g, tbl'[g])
  <2>1. FirstRows(tool.file, <<>>)
    BY <1>5, <1>6 DEF FirstRows
  <2> QED
    BY <1>1, <1>4, <2>1 DEF TextsInv
<1>9. \A g \in Files : FirstRows(g, tbl[g])' <=> FirstRows(g, tbl'[g])
  BY DEF FirstRows
<1> QED
  BY <1>1, <1>2, <1>4, <1>7, <1>8, <1>9 DEF TextsInv

LEMMA ToolWritesStep == ASSUME TextsInv, ToolWrites PROVE TextsInv'
<1>1. /\ tool.at = "write" /\ tool.rows # <<>> /\ UNCHANGED csv
      /\ tbl' = [tbl EXCEPT ![tool.file] = Append(@, Head(tool.rows))]
      /\ tool' = [tool EXCEPT !.rows = Tail(@)]
  BY DEF ToolWrites
<1>2. /\ tool'.at = tool.at /\ tool'.file = tool.file /\ tool'.rows = Tail(tool.rows)
      /\ DOMAIN tool' = DOMAIN tool /\ tool.file \in Files
      /\ tbl'[tool.file] = Append(tbl[tool.file], Head(tool.rows))
  BY <1>1 DEF TextsInv
<1>3. PICK version \in Versions, m \in 0 .. NumRows : \E n \in m .. NumRows :
        /\ tbl[tool.file] = Between(tool.file, version, 0, m)
        /\ tool.rows = Between(tool.file, version, m, n)
  BY <1>1 DEF TextsInv, ToolWrote
<1>4. PICK n \in m .. NumRows :
        /\ tbl[tool.file] = Between(tool.file, version, 0, m)
        /\ tool.rows = Between(tool.file, version, m, n)
  BY <1>3
<1>5. m \in Nat /\ n \in Nat /\ version \in Nat /\ n <= NumRows /\ NumRows \in Nat
  BY RowsAssumption DEF Versions
<1>6. m < n
  <2>1. m # n
    BY <1>1, <1>4, <1>5, NothingBetween
  <2> QED
    BY <1>5, <2>1
<1>7. /\ tbl'[tool.file] = Between(tool.file, version, 0, m + 1)
      /\ tool'.rows = Between(tool.file, version, m + 1, n)
  <2>1. PICK f : f = tool.file /\ f \in Files
    BY <1>2
  <2>2. /\ Append(Between(f, version, 0, m), Head(Between(f, version, m, n))) = Between(f, version, 0, m + 1)
        /\ Tail(Between(f, version, m, n)) = Between(f, version, m + 1, n)
    <3>1. f \in Files /\ version \in Nat /\ m \in Nat /\ n \in Nat /\ m < n
      BY <1>5, <1>6, <2>1
    <3> QED
      BY <3>1, BetweenMoves, ZenonT(60)
  <2>3. tbl'[f] = Append(tbl[f], Head(tool.rows)) /\ tool'.rows = Tail(tool.rows)
    BY <1>2, <2>1
  <2>4. tbl[f] = Between(f, version, 0, m) /\ tool.rows = Between(f, version, m, n)
    BY <1>4, <2>1
  <2>5. /\ tbl'[f] = Between(f, version, 0, m + 1)
        /\ tool'.rows = Between(f, version, m + 1, n)
    BY <2>2, <2>3, <2>4, Zenon
  <2> QED
    BY <2>1, <2>5
<1>8. m + 1 \in 0 .. NumRows /\ n \in m + 1 .. NumRows
  BY <1>5, <1>6
<1>9. ToolWrote'
  BY <1>2, <1>7, <1>8 DEF ToolWrote
<1>10. \A g \in Files : tbl'[g] = NoFile \/ FirstRows(g, tbl'[g])
  <2>1. FirstRows(tool.file, tbl'[tool.file])
    BY <1>7, <1>8 DEF FirstRows
  <2> QED
    BY <1>1, <1>2, <2>1 DEF TextsInv
<1>11. \A g \in Files : FirstRows(g, tbl[g])' <=> FirstRows(g, tbl'[g])
  BY DEF FirstRows
<1> QED
  BY <1>1, <1>2, <1>9, <1>10, <1>11 DEF TextsInv

LEMMA ToolEndsStep == ASSUME TextsInv, ToolEnds PROVE TextsInv'
<1>1. UNCHANGED <<csv, tbl>> /\ tool' = [at |-> "idle", file |-> NoFile, rows |-> <<>>]
  BY DEF ToolEnds
<1>2. \A g \in Files : FirstRows(g, tbl[g])' <=> FirstRows(g, tbl[g])
  BY <1>1 DEF FirstRows
<1> QED
  BY <1>1, <1>2 DEF TextsInv

LEMMA TextsInvStep == ASSUME TextsInv, [SessionNext]_sessionVars PROVE TextsInv'
<1>1. ASSUME NEW f \in Files, WriteText(f) PROVE TextsInv'
  BY <1>1, TextsStep
<1>2. ASSUME NEW f \in Files, ToolReads(f) PROVE TextsInv'
  BY <1>2, ToolReadsStep
<1>3. CASE ToolOpens
  BY <1>3, ToolOpensStep
<1>4. CASE ToolWrites
  BY <1>4, ToolWritesStep
<1>5. CASE ToolEnds
  BY <1>5, ToolEndsStep
<1>6. CASE UNCHANGED <<csv, tbl, tool>>
  BY <1>6, TextsAlone
<1>7. CASE Work
  BY <1>6, <1>7 DEF Work, LoadNext, Loaded, GiveUp, Optimize, Execute, Unload, textFiles
<1>8. ASSUME NEW i \in Ids, NEW f \in Files, Copy(i, f) PROVE UNCHANGED <<csv, tbl, tool>>
  BY <1>8 DEF Copy, textFiles
<1>9. ASSUME NEW name \in Names, CreateTable(name) PROVE UNCHANGED <<csv, tbl, tool>>
  BY <1>9 DEF CreateTable
<1>10. ASSUME NEW i \in Ids, Preload(i) PROVE UNCHANGED <<csv, tbl, tool>>
  BY <1>10 DEF Preload, textFiles
<1>11. ASSUME NEW kind \in Kinds, NEW S \in SUBSET Ids, Start(kind, S) PROVE UNCHANGED <<csv, tbl, tool>>
  BY <1>11 DEF Start, textFiles
<1>12. Restart \/ UNCHANGED sessionVars => UNCHANGED <<csv, tbl, tool>>
  BY DEF Restart, textFiles, sessionVars
<1> QED
  BY <1>1, <1>2, <1>3, <1>4, <1>5, <1>6, <1>7, <1>8, <1>9, <1>10, <1>11, <1>12 DEF SessionNext

-----------------------------------------------------------------------------
\* Steps of the database.

LEMMA RowsAreRows == \A f \in Files, version \in Nat : Rows(f, version) \in Seq(Row)
  BY RowsAssumption, FrontIsSeq DEF Rows

LEMMA FirstRowsAreThere == \A rows : \A f \in Files : FirstRows(f, rows) => rows # NoFile
  BY NoFileAssumption DEF FirstRows, Versions

LEMMA PathOfTable ==
  ASSUME TablesInv, NEW i \in Ids PROVE filepaths[i] \in Files \cup {NoFile}
<1>1. i \in 1 .. Len(filepaths)
  BY LenProperties DEF TablesInv
<1> QED
  BY <1>1, ElementOfSeq DEF TablesInv

\* A ".tbl" does not disappear.
LEMMA TblStays ==
  ASSUME TextsInv, TextsInv', UNCHANGED tbl \/ ToolOpens \/ ToolWrites
  PROVE  \A f \in Files : tbl'[f] = NoFile => tbl[f] = NoFile
<1>1. CASE ToolOpens \/ ToolWrites
  <2>1. /\ tool'.at = "write" /\ tool'.file = tool.file /\ tool.file \in Files
        /\ \A f \in Files : f # tool.file => tbl'[f] = tbl[f]
    BY <1>1 DEF ToolOpens, ToolWrites, TextsInv
  <2>2. PICK version \in Versions, n \in 0 .. NumRows : tbl'[tool.file] = Between(tool.file, version, 0, n)
    BY <2>1 DEF TextsInv, ToolWrote
  <2>3. tbl'[tool.file] # NoFile
    BY <2>1, <2>2, NoFileAssumption DEF Versions
  <2> QED
    BY <2>1, <2>3
<1> QED
  BY <1>1

LEMMA TablesKept ==
  ASSUME TablesInv, UNCHANGED <<csv, built, database, since>>,
         \A f \in Files : tbl'[f] = NoFile => tbl[f] = NoFile
  PROVE  TablesInv'
<1>1. Ids' = Ids /\ UNCHANGED <<schemas, tables, filepaths>>
  BY DEF Ids, database
<1>2. ASSUME NEW i \in DOMAIN tables PROVE TableInv(i)'
  <2>1. TableInv(i)
    BY DEF TablesInv
  <2>2. \A f, rows : FirstRows(f, rows)' <=> FirstRows(f, rows)
    BY DEF FirstRows
  <2> QED
    BY <1>1, <2>1, <2>2 DEF TableInv
<1> QED
  BY <1>1, <1>2 DEF TablesInv

LEMMA TablesLoaded ==
  ASSUME TextsInv, TablesInv, UNCHANGED <<textFiles, schemas, filepaths, since>>,
         NEW S, \A i \in S : CanLoad(i),
         tables' = [i \in DOMAIN tables |->
                      IF i \in S THEN LoadRelation(tables[i], filepaths[i]) ELSE tables[i]]
  PROVE  TablesInv'
<1>1. Ids' = Ids /\ UNCHANGED <<csv, tbl, built>> /\ DOMAIN tables' = DOMAIN tables
  BY DEF Ids, textFiles
<1>2. ASSUME NEW i \in DOMAIN tables PROVE TableInv(i)'
  <2>1. TableInv(i) /\ i \in Ids
    BY DEF TablesInv
  <2>2. CASE i \notin S
    <3>1. tables'[i] = tables[i]
      BY <2>2
    <3> QED
      BY <1>1, <2>1, <3>1 DEF TableInv, FirstRows
  <2>3. CASE i \in S
    <3> DEFINE f == filepaths[i]
    <3>1. f \in Files /\ tables[i].data = <<>> /\ csv[f] # 0 /\ Rows(f, csv[f]) \in since[i]
      BY <2>1, <2>3, PathOfTable DEF CanLoad, TableInv, TablesInv
    <3>2. FirstRows(f, Rows(f, csv[f])) /\ <<>> \o Rows(f, csv[f]) = Rows(f, csv[f])
      BY <3>1, RowsAreFirst
    <3>3. /\ tables'[i].loaded
          /\ tables'[i].data = IF tbl[f] # NoFile THEN tbl[f] ELSE Rows(f, csv[f])
      BY <2>3, <3>1, <3>2 DEF LoadRelation
    <3>4. tbl[f] = NoFile \/ FirstRows(f, tbl[f])
      BY <3>1 DEF TextsInv
    <3>5. FirstRows(f, tables'[i].data) /\ (tbl[f] = NoFile => tables'[i].data \in since[i])
      BY <3>1, <3>2, <3>3, <3>4
    <3> QED
      BY <1>1, <3>1, <3>3, <3>5 DEF TableInv, FirstRows
  <2> QED
    BY <2>2, <2>3
<1> QED
  BY <1>1, <1>2 DEF TablesInv

LEMMA TablesUnloaded ==
  ASSUME TablesInv, UNCHANGED <<textFiles, schemas, filepaths, since>>,
         NEW S,
         tables' = [i \in DOMAIN tables |-> IF i \in S THEN UnloadRelation(tables[i]) ELSE tables[i]]
  PROVE  TablesInv'
<1>1. Ids' = Ids /\ UNCHANGED <<csv, tbl, built>> /\ DOMAIN tables' = DOMAIN tables
  BY DEF Ids, textFiles
<1>2. ASSUME NEW i \in DOMAIN tables PROVE TableInv(i)'
  <2>1. TableInv(i)
    BY DEF TablesInv
  <2>2. CASE i \notin S
    <3>1. tables'[i] = tables[i]
      BY <2>2
    <3> QED
      BY <1>1, <2>1, <3>1 DEF TableInv, FirstRows
  <2>3. CASE i \in S
    BY <2>3 DEF TableInv, UnloadRelation
  <2> QED
    BY <2>2, <2>3
<1> QED
  BY <1>1, <1>2 DEF TablesInv

LEMMA WriteTextTables ==
  ASSUME TextsInv, TablesInv, NEW f \in Files, WriteText(f) PROVE TablesInv'
<1>1. /\ csv' = [csv EXCEPT ![f] = @ + 1] /\ UNCHANGED <<tbl, built, schemas, tables, filepaths>>
      /\ since' = [i \in Ids |-> IF filepaths[i] = f THEN since[i] \cup {Rows(f, csv'[f])} ELSE since[i]]
  BY DEF WriteText, database
<1>2. csv[f] \in Nat /\ csv'[f] \in Nat /\ csv'[f] # 0 /\ \A g \in Files : g # f => csv'[g] = csv[g]
  <2>1. csv[f] \in 0 .. MaxVersion /\ MaxVersion \in Nat
    BY RowsAssumption DEF TextsInv
  <2>2. csv'[f] = csv[f] + 1
    BY <1>1 DEF TextsInv
  <2> QED
    BY <1>1, <2>1, <2>2 DEF TextsInv
<1>3. Rows(f, csv'[f]) \in Seq(Row)
  BY <1>2, RowsAreRows
<1>4. Ids' = Ids /\ Len(schemas) \in Nat /\ Ids = 1 .. Len(schemas) /\ Len(since) \in Nat /\ Ids = 1 .. Len(since)
  BY <1>1, LenProperties DEF Ids, TablesInv
<1>5. since' \in Seq(SUBSET Seq(Row)) /\ DOMAIN since' = Ids /\ \A i \in Ids : since[i] \subseteq since'[i]
  <2>1. \A i \in Ids : since[i] \in SUBSET Seq(Row)
    BY <1>4, ElementOfSeq DEF TablesInv
  <2>2. since' \in [1 .. Len(schemas) -> SUBSET Seq(Row)]
    BY <1>1, <1>3, <1>4, <2>1
  <2> QED
    BY <1>1, <1>4, <2>2, SeqDef
<1>6. ASSUME NEW i \in Ids, filepaths[i] # NoFile
      PROVE  csv'[filepaths[i]] # 0 /\ Rows(filepaths[i], csv'[filepaths[i]]) \in since'[i]
  <2>1. filepaths[i] \in Files /\ csv[filepaths[i]] # 0 /\ Rows(filepaths[i], csv[filepaths[i]]) \in since[i]
    BY <1>6, PathOfTable DEF TablesInv
  <2>2. CASE filepaths[i] = f
    BY <1>1, <1>2, <2>2
  <2>3. CASE filepaths[i] # f
    BY <1>1, <1>2, <2>1, <2>3
  <2> QED
    BY <2>2, <2>3
<1>7. ASSUME NEW i \in DOMAIN tables PROVE TableInv(i)'
  <2>1. TableInv(i) /\ since[i] \subseteq since'[i]
    BY <1>5 DEF TablesInv
  <2> QED
    BY <1>1, <2>1 DEF TableInv, FirstRows
<1>8. \A i \in Ids : Rows(filepaths[i], csv[filepaths[i]])' = Rows(filepaths[i], csv'[filepaths[i]])
  BY <1>1 DEF Rows, Between
<1> QED
  BY <1>1, <1>4, <1>5, <1>6, <1>7, <1>8 DEF TablesInv

LEMMA CopyTables ==
  ASSUME TextsInv, TablesInv, NEW i \in Ids, NEW f \in Files, Copy(i, f) PROVE TablesInv'
<1>1. UNCHANGED <<csv, tbl, tool, built, schemas>> /\ Ids' = Ids
  BY DEF Copy, textFiles, Ids
<1>2. CASE csv[f] = 0
  BY <1>1, <1>2, TablesKept DEF Copy, database
<1>3. CASE csv[f] # 0
  <2>1. /\ filepaths' = [filepaths EXCEPT ![i] = f]
        /\ since' = [since EXCEPT ![i] = {Rows(f, csv[f])}]
        /\ IF i \in DOMAIN tables THEN CopyUnloads(i) ELSE UNCHANGED tables
    BY <1>3 DEF Copy
  <2>2. Rows(f, csv[f]) \in Seq(Row)
    BY <1>3, RowsAreFirst
  <2>3. /\ Len(filepaths) \in Nat /\ Ids = 1 .. Len(filepaths)
        /\ Len(since) \in Nat /\ Ids = 1 .. Len(since)
    BY LenProperties DEF TablesInv
  <2>4. filepaths' \in Seq(Files \cup {NoFile}) /\ DOMAIN filepaths' = Ids
    BY <2>1, <2>3, ExceptSeq DEF TablesInv
  <2>5. since' \in Seq(SUBSET Seq(Row)) /\ DOMAIN since' = Ids
    <3>1. {Rows(f, csv[f])} \in SUBSET Seq(Row)
      BY <2>2
    <3> QED
      BY <2>1, <2>3, <3>1, ExceptSeq DEF TablesInv
  <2>6. DOMAIN tables' = DOMAIN tables /\ \A j \in DOMAIN tables : j # i => tables'[j] = tables[j]
    BY <2>1 DEF CopyUnloads
  <2>7. i \in DOMAIN tables => tables'[i] = [loaded |-> FALSE, data |-> <<>>]
    BY <2>1 DEF CopyUnloads, UnloadRelation
  <2>8. /\ filepaths'[i] = f /\ since'[i] = {Rows(f, csv[f])}
        /\ \A j \in Ids : j # i => filepaths'[j] = filepaths[j] /\ since'[j] = since[j]
    BY <2>1 DEF TablesInv
  <2>9. ASSUME NEW j \in DOMAIN tables PROVE TableInv(j)'
    <3>1. CASE j = i
      BY <2>7, <3>1 DEF TableInv
    <3>2. CASE j # i
      <4>1. TableInv(j) /\ tables'[j] = tables[j] /\ filepaths'[j] = filepaths[j] /\ since'[j] = since[j]
        BY <2>6, <2>8, <3>2 DEF TablesInv
      <4> QED
        BY <1>1, <4>1 DEF TableInv, FirstRows
    <3> QED
      BY <3>1, <3>2
  <2>10. ASSUME NEW j \in Ids, filepaths'[j] # NoFile
         PROVE  csv[filepaths'[j]] # 0 /\ Rows(filepaths'[j], csv[filepaths'[j]]) \in since'[j]
    BY <1>3, <2>8, <2>10 DEF TablesInv
  <2>11. \A j \in Ids : Rows(filepaths[j], csv[filepaths[j]])' = Rows(filepaths'[j], csv[filepaths'[j]])
    BY <1>1 DEF Rows, Between
  <2> QED
    BY <1>1, <2>4, <2>5, <2>6, <2>9, <2>10, <2>11 DEF TablesInv
<1> QED
  BY <1>2, <1>3

LEMMA CreateTables ==
  ASSUME TablesInv, NEW name \in Names, CreateTable(name) PROVE TablesInv'
<1>1. /\ schemas' = Append(schemas, name) /\ filepaths' = Append(filepaths, NoFile)
      /\ since' = Append(since, {}) /\ built' = schemas' /\ UNCHANGED <<csv, tbl, tables>>
  BY DEF CreateTable
<1> DEFINE n == Len(schemas)
<1>2. n \in Nat /\ Ids = 1 .. n /\ Len(filepaths) = n /\ Len(since) = n
  <2>1. n \in Nat /\ Ids = 1 .. n
    BY LenProperties DEF TablesInv, Ids
  <2>2. Len(filepaths) \in Nat /\ Ids = 1 .. Len(filepaths) /\ Len(since) \in Nat /\ Ids = 1 .. Len(since)
    BY LenProperties DEF TablesInv
  <2> HIDE DEF n
  <2> QED
    BY <2>1, <2>2
<1>3. schemas' \in Seq(Names) /\ Len(schemas') = n + 1
  BY <1>1, AppendProperties DEF TablesInv
<1>4. /\ filepaths' \in Seq(Files \cup {NoFile}) /\ Len(filepaths') = n + 1
      /\ filepaths'[n + 1] = NoFile /\ \A i \in Ids : filepaths'[i] = filepaths[i]
  BY <1>1, <1>2, AppendProperties DEF TablesInv
<1>5. /\ since' \in Seq(SUBSET Seq(Row)) /\ Len(since') = n + 1
      /\ \A i \in Ids : since'[i] = since[i]
  BY <1>1, <1>2, AppendProperties DEF TablesInv
<1> HIDE DEF n
<1>6. Ids' = 1 .. n + 1 /\ DOMAIN filepaths' = 1 .. n + 1 /\ DOMAIN since' = 1 .. n + 1
  BY <1>3, <1>4, <1>5, LenProperties DEF Ids
<1>7. Ids \subseteq Ids' /\ \A i \in Ids' : i \in Ids \/ i = n + 1
  BY <1>2, <1>6
<1>8. ASSUME NEW i \in DOMAIN tables PROVE TableInv(i)'
  <2>1. TableInv(i) /\ i \in Ids
    BY DEF TablesInv
  <2>2. tables'[i] = tables[i] /\ filepaths'[i] = filepaths[i] /\ since'[i] = since[i] /\ tbl' = tbl
    BY <1>1, <1>4, <1>5, <2>1
  <2> QED
    BY <2>1, <2>2 DEF TableInv, FirstRows
<1>9. ASSUME NEW i \in Ids', filepaths'[i] # NoFile
      PROVE  csv[filepaths'[i]] # 0 /\ Rows(filepaths'[i], csv[filepaths'[i]]) \in since'[i]
  BY <1>4, <1>5, <1>7, <1>9 DEF TablesInv
<1>10. \A i \in Ids' : Rows(filepaths[i], csv[filepaths[i]])' = Rows(filepaths'[i], csv[filepaths'[i]])
  BY <1>1 DEF Rows, Between
<1> QED
  BY <1>1, <1>3, <1>4, <1>5, <1>6, <1>7, <1>8, <1>9, <1>10 DEF TablesInv

LEMMA RestartTables == ASSUME TablesInv, Restart PROVE TablesInv'
<1>1. /\ schemas' = built /\ tables' = [i \in DOMAIN built |-> EmptyTable]
      /\ filepaths' = [i \in DOMAIN built |-> NoFile] /\ since' = [i \in DOMAIN built |-> {}]
      /\ UNCHANGED <<csv, tbl, built>>
  BY DEF Restart, textFiles
<1>2. Len(built) \in Nat /\ DOMAIN built = 1 .. Len(built) /\ Ids' = DOMAIN built
  BY <1>1, LenProperties DEF TablesInv, Ids
<1>3. filepaths' \in Seq(Files \cup {NoFile})
  <2>1. filepaths' \in [1 .. Len(built) -> Files \cup {NoFile}]
    BY <1>1, <1>2
  <2> QED
    BY <1>2, <2>1, SeqDef
<1>4. since' \in Seq(SUBSET Seq(Row))
  <2>1. since' \in [1 .. Len(built) -> SUBSET Seq(Row)]
    BY <1>1, <1>2
  <2> QED
    BY <1>2, <2>1, SeqDef
<1>5. ASSUME NEW i \in DOMAIN built PROVE TableInv(i)' /\ filepaths'[i] = NoFile
  BY <1>1 DEF TableInv, EmptyTable
<1> QED
  BY <1>1, <1>2, <1>3, <1>4, <1>5 DEF TablesInv

\* LoadAll, as Database::loadRelation does it for each of S, or stops at an assertion.
LEMMA LoadAllTables ==
  ASSUME TextsInv, TablesInv, UNCHANGED <<textFiles, schemas, filepaths, since>>, NEW S, LoadAll(S)
  PROVE  TablesInv'
<1>1. CASE \A i \in S : CanLoad(i)
  <2>1. tables' = [i \in DOMAIN tables |->
                     IF i \in S THEN LoadRelation(tables[i], filepaths[i]) ELSE tables[i]]
    BY <1>1 DEF LoadAll
  <2> QED
    BY <1>1, <2>1, TablesLoaded
<1>2. CASE ~(\A i \in S : CanLoad(i))
  BY <1>2, TablesKept DEF LoadAll, database, textFiles
<1> QED
  BY <1>1, <1>2

LEMMA WorkTables == ASSUME TextsInv, TablesInv, Work PROVE TablesInv'
<1>1. ASSUME NEW i \in toLoad, LoadNext(i) PROVE TablesInv'
  <2>1. UNCHANGED <<textFiles, schemas, filepaths, since>> /\ (LoadAll({i}) \/ UNCHANGED tables)
    BY <1>1 DEF LoadNext
  <2>2. CASE LoadAll({i})
    BY <2>1, <2>2, LoadAllTables
  <2>3. CASE UNCHANGED tables
    BY <2>1, <2>3, TablesKept DEF database, textFiles
  <2> QED
    BY <2>1, <2>2, <2>3
<1>2. CASE Loaded \/ GiveUp \/ Execute
  BY <1>2, TablesKept DEF Loaded, GiveUp, Execute, database, textFiles
<1>3. ASSUME NEW ask \in BOOLEAN, Optimize(ask) PROVE TablesInv'
  <2> DEFINE S == IF ask THEN {i \in current.relations : NotLoaded(i)} ELSE {}
  <2>1. /\ UNCHANGED <<textFiles, schemas, filepaths, since>>
        /\ IF \A i \in S : CanLoad(i)
           THEN tables' = [i \in DOMAIN tables |->
                             IF i \in S THEN LoadRelation(tables[i], filepaths[i]) ELSE tables[i]]
           ELSE UNCHANGED tables
    BY <1>3 DEF Optimize
  <2> HIDE DEF S
  <2>2. CASE \A i \in S : CanLoad(i)
    BY <2>1, <2>2, TablesLoaded
  <2>3. CASE ~(\A i \in S : CanLoad(i))
    BY <2>1, <2>3, TablesKept DEF database, textFiles
  <2> QED
    BY <2>2, <2>3
<1>4. CASE Unload
  <2> DEFINE S == IF current.kind \in {"interpret", "benchmark"} THEN current.relations ELSE {}
  <2>1. /\ UNCHANGED <<textFiles, schemas, filepaths, since>>
        /\ tables' = [i \in DOMAIN tables |-> IF i \in S THEN UnloadRelation(tables[i]) ELSE tables[i]]
    BY <1>4 DEF Unload
  <2> HIDE DEF S
  <2> QED
    BY <2>1, TablesUnloaded
<1> QED
  BY <1>1, <1>2, <1>3, <1>4 DEF Work

LEMMA TablesInvStep ==
  ASSUME TextsInv, TextsInv', TablesInv, [SessionNext]_sessionVars PROVE TablesInv'
<1>1. CASE Work
  BY <1>1, WorkTables
<1>2. ASSUME NEW f \in Files, WriteText(f) PROVE TablesInv'
  BY <1>2, WriteTextTables
<1>3. ASSUME NEW f \in Files, ToolReads(f) PROVE TablesInv'
  BY <1>3, TablesKept DEF ToolReads
<1>4. ASSUME NEW f \in Files, NEW i \in Ids, Copy(i, f) PROVE TablesInv'
  BY <1>4, CopyTables
<1>5. CASE ToolOpens \/ ToolWrites
  <2>1. UNCHANGED <<csv, built, database, since>>
    BY <1>5 DEF ToolOpens, ToolWrites
  <2> QED
    BY <1>5, <2>1, TblStays, TablesKept
<1>6. CASE ToolEnds
  BY <1>6, TablesKept DEF ToolEnds
<1>7. ASSUME NEW name \in Names, CreateTable(name) PROVE TablesInv'
  BY <1>7, CreateTables
<1>8. ASSUME NEW i \in Ids, Preload(i) PROVE TablesInv'
  BY <1>8, LoadAllTables DEF Preload
<1>9. ASSUME NEW kind \in Kinds, NEW S \in SUBSET Ids, Start(kind, S) PROVE TablesInv'
  BY <1>9, TablesKept DEF Start, textFiles
<1>10. CASE Restart
  BY <1>10, RestartTables
<1>11. CASE UNCHANGED sessionVars
  BY <1>11, TablesKept DEF sessionVars, textFiles
<1> QED
  BY <1>1, <1>2, <1>3, <1>4, <1>5, <1>6, <1>7, <1>8, <1>9, <1>10, <1>11 DEF SessionNext

-----------------------------------------------------------------------------
\* Steps of a query.

LEMMA PhaseKept ==
  ASSUME PhaseInv, UNCHANGED <<database, progress, fault>> PROVE PhaseInv'
  BY DEF PhaseInv, database, progress

LEMMA LoadNextPhase == ASSUME PhaseInv, NEW i \in toLoad, LoadNext(i) PROVE PhaseInv'
<1>1. /\ sessionPc = "load" /\ toLoad' = toLoad \ {i} /\ UNCHANGED <<filepaths, current>>
      /\ IF NotLoaded(i) THEN LoadAll({i}) ELSE UNCHANGED <<tables, sessionPc, fault>>
  BY DEF LoadNext
<1>2. i \in current.relations /\ i \in DOMAIN tables /\ filepaths[i] # NoFile
  BY <1>1 DEF PhaseInv
<1>3. CASE NotLoaded(i)
  <2>1. CanLoad(i)
    BY <1>2, <1>3 DEF CanLoad, NotLoaded
  <2>2. /\ UNCHANGED <<sessionPc, fault>>
        /\ tables' = [j \in DOMAIN tables |->
                        IF j \in {i} THEN LoadRelation(tables[j], filepaths[j]) ELSE tables[j]]
    BY <1>1, <1>3, <2>1 DEF LoadAll
  <2>3. tables'[i].loaded /\ DOMAIN tables' = DOMAIN tables
        /\ \A j \in DOMAIN tables : j # i => tables'[j] = tables[j]
    BY <1>2, <2>2 DEF LoadRelation
  <2> QED
    BY <1>1, <2>2, <2>3 DEF PhaseInv
<1>4. CASE ~NotLoaded(i)
  <2>1. tables[i].loaded /\ UNCHANGED <<tables, sessionPc, fault>>
    BY <1>1, <1>4 DEF NotLoaded
  <2> QED
    BY <1>1, <2>1 DEF PhaseInv
<1> QED
  BY <1>3, <1>4

LEMMA OptimizePhase == ASSUME PhaseInv, NEW ask \in BOOLEAN, Optimize(ask) PROVE PhaseInv'
<1> DEFINE S == IF ask THEN {i \in current.relations : NotLoaded(i)} ELSE {}
<1>1. /\ sessionPc = "optimize" /\ UNCHANGED <<filepaths, current, toLoad>>
      /\ (\A i \in S : CanLoad(i)) =>
           /\ tables' = [i \in DOMAIN tables |->
                           IF i \in S THEN LoadRelation(tables[i], filepaths[i]) ELSE tables[i]]
           /\ sessionPc' = "execute" /\ UNCHANGED fault
  BY DEF Optimize
<1>2. \A i \in S : CanLoad(i)
  BY <1>1 DEF PhaseInv, CanLoad, NotLoaded
<1> HIDE DEF S
<1>3. ASSUME NEW i \in DOMAIN tables, tables[i].loaded PROVE tables'[i].loaded
  <2>1. CASE i \in S
    <3>1. tables'[i] = LoadRelation(tables[i], filepaths[i])
      BY <1>1, <1>2, <2>1
    <3> QED
      BY <3>1 DEF LoadRelation
  <2>2. CASE i \notin S
    BY <1>1, <1>2, <1>3, <2>2
  <2> QED
    BY <2>1, <2>2
<1>4. DOMAIN tables' = DOMAIN tables
  BY <1>1, <1>2
<1> QED
  BY <1>1, <1>2, <1>3, <1>4 DEF PhaseInv

LEMMA WorkPhase == ASSUME PhaseInv, Work PROVE PhaseInv'
<1>1. CASE Loaded
  BY <1>1 DEF Loaded, database, PhaseInv
<1>2. CASE GiveUp \/ Unload
  BY <1>2 DEF GiveUp, Unload, PhaseInv
<1>3. CASE Execute
  BY <1>3 DEF Execute, PhaseInv
<1> QED
  BY <1>1, <1>2, <1>3, LoadNextPhase, OptimizePhase DEF Work

LEMMA PhaseInvStep ==
  ASSUME ~UseAtOnce, PhaseInv, [SessionNext]_sessionVars PROVE PhaseInv'
<1>1. CASE Work
  BY <1>1, WorkPhase
<1>2. ASSUME NEW f \in Files, WriteText(f) \/ ToolReads(f) PROVE PhaseInv'
  BY <1>2, PhaseKept DEF WriteText, ToolReads
<1>3. ASSUME NEW f \in Files, NEW i \in Ids, Copy(i, f) PROVE PhaseInv'
  <2>1. /\ sessionPc = "idle" /\ sessionPc' \in {"idle", "over"}
        /\ i \in DOMAIN tables => UNCHANGED fault
        /\ i \in DOMAIN tables
    BY <1>3 DEF Copy
  <2> QED
    BY <2>1 DEF PhaseInv
<1>4. CASE ToolOpens \/ ToolWrites \/ ToolEnds
  BY <1>4, PhaseKept DEF ToolOpens, ToolWrites, ToolEnds
<1>5. ASSUME NEW name \in Names, CreateTable(name) PROVE PhaseInv'
  BY <1>5 DEF CreateTable, progress, PhaseInv
<1>6. ASSUME NEW i \in Ids, Preload(i) PROVE PhaseInv'
  <2>1. sessionPc = "idle" /\ CanLoad(i) /\ LoadAll({i})
    BY <1>6 DEF Preload, CanLoad
  <2>2. UNCHANGED <<sessionPc, fault>>
    BY <2>1 DEF LoadAll
  <2> QED
    BY <2>1, <2>2 DEF PhaseInv
<1>7. ASSUME NEW kind \in Kinds, NEW S \in SUBSET Ids, Start(kind, S) PROVE PhaseInv'
  <2>1. /\ \A i \in S : filepaths[i] # NoFile /\ i \in DOMAIN tables
        /\ current' = [kind |-> kind, relations |-> S]
        /\ toLoad' = IF NeedsTables(kind) THEN S ELSE {}
        /\ sessionPc' = "load" /\ UNCHANGED <<tables, filepaths, fault>>
    BY <1>7 DEF Start, database
  <2>2. current'.kind = kind /\ current'.relations = S
    BY <2>1
  <2> QED
    BY <2>1, <2>2 DEF PhaseInv, NeedsTables
<1>8. CASE Restart
  BY <1>8 DEF Restart, PhaseInv
<1>9. CASE UNCHANGED sessionVars
  BY <1>9, PhaseKept DEF sessionVars
<1> QED
  BY <1>1, <1>2, <1>3, <1>4, <1>5, <1>6, <1>7, <1>8, <1>9 DEF SessionNext

-----------------------------------------------------------------------------
\* The tables and the ".tbl" files, whatever the statements, the tool and the writers of the
\* texts do and wherever they end.
THEOREM TablesStayInStep == SessionSpec => [](TextsInv /\ TablesInv)
<1>1. SessionInit => TextsInv /\ TablesInv
  BY TextsInitial, TablesInitial
<1>2. TextsInv /\ TablesInv /\ [SessionNext]_sessionVars => (TextsInv /\ TablesInv)'
  BY TextsInvStep, TablesInvStep
<1> QED
  BY <1>1, <1>2, PTL DEF SessionSpec

\* A loaded table has the first rows of one version, in order and each once, and an unloaded one
\* none: the generated loadRelation appends to what is there, and the tool writes in place.
THEOREM TablesHaveOneVersion == SessionSpec => []OneVersion
<1>1. TablesInv => OneVersion
  <2> SUFFICES ASSUME TablesInv, NEW i \in DOMAIN tables
               PROVE  IF tables[i].loaded
                      THEN \E f \in Files : \E version \in 1 .. MaxVersion :
                             IsPrefix(tables[i].data, Rows(f, version))
                      ELSE tables[i].data = <<>>
    BY DEF OneVersion
  <2>1. TableInv(i)
    BY DEF TablesInv
  <2> QED
    BY <2>1, FirstRowsArePrefix DEF TableInv, Versions
<1> QED
  BY <1>1, TablesStayInStep, PTL

\* A query reads what the file of its relation held since the last COPY, whichever statement,
\* given up or not, loaded it, and no relation is loaded twice; a relation that the program was
\* not built with is not used.
THEOREM QueriesReadCopied == ASSUME ~UseAtOnce PROVE SessionSpec => []ReadsCopied
<1>1. SessionInit => PhaseInv
  BY PhaseInitial
<1>2. PhaseInv /\ [SessionNext]_sessionVars => PhaseInv'
  BY PhaseInvStep
<1>3. TablesInv /\ PhaseInv => ReadsCopied
  BY DEF TablesInv, TableInv, PhaseInv, ReadsCopied, NoFault
<1> QED
  BY <1>1, <1>2, <1>3, TablesStayInStep, PTL DEF SessionSpec

-----------------------------------------------------------------------------
(* ScriptExecution.                                                        *)

\* Sequences, and stacks of one or two.
IsSequence(s) == s \in Seq(ToSet(s))

LEMMA EmptyIsSequence == IsSequence(<<>>) /\ Len(<<>>) = 0
  BY EmptySeq DEF IsSequence

LEMMA SequenceLength ==
  ASSUME NEW s, IsSequence(s) PROVE Len(s) \in Nat /\ DOMAIN s = 1 .. Len(s)
  BY LenProperties DEF IsSequence

LEMMA AppendIsSequence ==
  ASSUME NEW s, NEW x, IsSequence(s)
  PROVE  /\ IsSequence(Append(s, x))
         /\ Append(s, x) # <<>>
         /\ Len(Append(s, x)) = Len(s) + 1
         /\ \A i \in 1 .. Len(s) : Append(s, x)[i] = s[i]
         /\ Append(s, x)[Len(s) + 1] = x
<1> DEFINE S == ToSet(s) \cup {x}
<1>1. s \in Seq(S) /\ x \in S
  BY SeqMonotonic DEF IsSequence
<1>2. /\ Append(s, x) \in Seq(S) /\ Append(s, x) # <<>> /\ Len(Append(s, x)) = Len(s) + 1
      /\ \A i \in 1 .. Len(s) : Append(s, x)[i] = s[i]
      /\ Append(s, x)[Len(s) + 1] = x
  BY <1>1, AppendProperties
<1>3. IsSequence(Append(s, x))
  <2>1. Append(s, x) \in Seq(Range(Append(s, x)))
    BY <1>2, SeqOfRange
  <2>2. Range(Append(s, x)) = ToSet(Append(s, x))
    BY DEF Range, ToSet
  <2> QED
    BY <2>1, <2>2 DEF IsSequence
<1> QED
  BY <1>2, <1>3

LEMMA TailIsSequence ==
  ASSUME NEW s, IsSequence(s), s # <<>>
  PROVE  /\ IsSequence(Tail(s))
         /\ Head(s) = s[1] /\ 1 \in DOMAIN s
         /\ Len(Tail(s)) = Len(s) - 1 /\ Len(Tail(s)) \in Nat
         /\ \A i \in 1 .. Len(Tail(s)) : Tail(s)[i] = s[i + 1]
<1> DEFINE S == ToSet(s)
<1>1. s \in Seq(S)
  BY DEF IsSequence
<1> HIDE DEF S
<1>2. /\ Tail(s) \in Seq(S) /\ Len(Tail(s)) = Len(s) - 1
      /\ \A i \in 1 .. Len(Tail(s)) : Tail(s)[i] = s[i + 1]
  BY <1>1, HeadTailProperties
<1>3. Tail(s) \in Seq(ToSet(Tail(s)))
  <2>1. Tail(s) \in Seq(Range(Tail(s)))
    BY <1>2, SeqOfRange
  <2>2. Range(Tail(s)) = ToSet(Tail(s))
    BY DEF Range, ToSet
  <2> QED
    BY <2>1, <2>2
<1>4. Len(s) \in Nat /\ DOMAIN s = 1 .. Len(s) /\ Len(s) # 0 /\ Head(s) = s[1]
  BY <1>1, EmptySeq, LenProperties
<1> QED
  BY <1>2, <1>3, <1>4, LenProperties DEF IsSequence

LEMMA OneFrame ==
  \A a, b : Last(<<a>>) = a /\ Front(<<a>>) = <<>> /\ Append(Front(<<a>>), b) = <<b>>
<1> SUFFICES ASSUME NEW a, NEW b
             PROVE  Last(<<a>>) = a /\ Front(<<a>>) = <<>> /\ Append(Front(<<a>>), b) = <<b>>
  OBVIOUS
<1>1. Front(<<a>>) = <<>>
  BY SubSeqEmpty DEF Front
<1> QED
  BY <1>1 DEF Last

LEMMA TwoFrames ==
  \A a, b, c : /\ Last(<<a, b>>) = b /\ Front(<<a, b>>) = <<a>>
               /\ Append(Front(<<a, b>>), c) = <<a, c>> /\ Append(<<a>>, b) = <<a, b>>
<1> SUFFICES ASSUME NEW a, NEW b, NEW c
             PROVE  /\ Last(<<a, b>>) = b /\ Front(<<a, b>>) = <<a>>
                    /\ Append(Front(<<a, b>>), c) = <<a, c>> /\ Append(<<a>>, b) = <<a, b>>
  OBVIOUS
<1> DEFINE S == {a, b, c}
<1>1. /\ <<a, b>> \in Seq(S) /\ Len(<<a, b>>) = 2 /\ <<a, b>>[1] = a /\ <<a, b>>[2] = b
      /\ <<a>> \in Seq(S) /\ Len(<<a>>) = 1 /\ <<a>>[1] = a
      /\ <<a, c>> \in Seq(S) /\ Len(<<a, c>>) = 2 /\ <<a, c>>[1] = a /\ <<a, c>>[2] = c
      /\ b \in S /\ c \in S
  OBVIOUS
<1> HIDE DEF S
<1>2. Front(<<a, b>>) = <<a>>
  <2> DEFINE front == SubSeq(<<a, b>>, 1, 1)
  <2>1. Front(<<a, b>>) = front
    BY <1>1 DEF Front
  <2>2. front \in Seq(S) /\ Len(front) = 1 /\ front[1] = a
    <3>1. \A i \in 1 .. 1 : <<a, b>>[i] \in S
      BY DEF S
    <3>2. /\ front \in Seq(S) /\ Len(front) = IF 1 <= 1 THEN 1 - 1 + 1 ELSE 0
          /\ \A i \in 1 .. 1 - 1 + 1 : front[i] = <<a, b>>[1 + i - 1]
      BY <3>1, SubSeqProperties
    <3> QED
      BY <1>1, <3>2
  <2> HIDE DEF front
  <2>3. \A i \in 1 .. Len(front) : front[i] = <<a>>[i]
    BY <1>1, <2>2
  <2> QED
    BY <1>1, <2>1, <2>2, <2>3, SeqEqual
<1>3. ASSUME NEW d \in {b, c} PROVE Append(<<a>>, d) = <<a, d>>
  <2>1. /\ Append(<<a>>, d) \in Seq(S) /\ Len(Append(<<a>>, d)) = 2
        /\ Append(<<a>>, d)[1] = a /\ Append(<<a>>, d)[2] = d
    <3>1. d \in S /\ <<a>> \in Seq(S) /\ Len(<<a>>) = 1
      BY <1>1, <1>3
    <3> QED
      BY <1>1, <3>1, AppendProperties
  <2>2. <<a, d>> \in Seq(S) /\ Len(<<a, d>>) = 2 /\ <<a, d>>[1] = a /\ <<a, d>>[2] = d
    BY <1>1, <1>3
  <2>3. \A i \in 1 .. Len(Append(<<a>>, d)) : Append(<<a>>, d)[i] = <<a, d>>[i]
    <3>1. \A i \in 1 .. 2 : i = 1 \/ i = 2
      OBVIOUS
    <3> QED
      BY <2>1, <2>2, <3>1
  <2> QED
    BY <2>1, <2>2, <2>3, SeqEqual
<1>4. Last(<<a, b>>) = b
  BY <1>1 DEF Last
<1> QED
  BY <1>2, <1>3, <1>4

-----------------------------------------------------------------------------
\* The line that was taken and is handled when all text is run.
Handling == scriptPc # "read"

\* The first place that was not read yet.
Cursor ==
  IF Len(frames) = 2 THEN <<frames[1].line - 1, frames[2].line>>
  ELSE IF Handling /\ then.kind = "include" THEN <<frames[1].line - 1, 1>>
  ELSE <<frames[1].line, 0>>

Stopping == stop \/ (Handling /\ then.kind = "quit")
TakenBefore(c) == {p \in Queries : Before(p, c)}

IsFrame(f) ==
  /\ f = [file |-> f.file, line |-> f.line, statements |-> f.statements, open |-> f.open]
  /\ f.file \in DOMAIN script /\ f.line \in 1 .. Len(script[f.file]) + 1
  /\ IsSequence(f.statements) /\ f.open \in BOOLEAN

\* One call of executeSQL, or two while a file is included; the first one waits with all run.
FramesInv ==
  \/ frames = <<frames[1]>> /\ IsFrame(frames[1]) /\ frames[1].file = Main
  \/ /\ frames = <<frames[1], frames[2]>> /\ IsFrame(frames[1]) /\ IsFrame(frames[2])
     /\ frames[1].file = Main /\ frames[1].line > 1
     /\ frames[1].statements = <<>> /\ ~frames[1].open
     /\ script[Main][frames[1].line - 1].kind = "include"
     /\ frames[2].file = script[Main][frames[1].line - 1].of

ReaderInv ==
  /\ script \in Scripts
  /\ scriptPc \in {"read", "parse", "optimize", "execute", "over"}
  /\ stop \in BOOLEAN
  /\ settings = [queryname |-> settings.queryname, resultsize |-> settings.resultsize]
  /\ IsSequence(ran)
  /\ scriptPc # "over" =>
       /\ FramesInv
       /\ then.kind = "include" /\ Handling =>
            Len(frames) = 1 /\ frames[1].line > 1 /\ script[Main][frames[1].line - 1] = then
       /\ then.kind = "eof" /\ Handling /\ ~stop => Top.line = Len(script[Top.file]) + 1
       /\ scriptPc \in {"optimize", "execute"} => ~Top.open /\ Top.statements # <<>>

\* Nothing is read behind \q, and nothing else is left out.
StopInv ==
  scriptPc # "over" =>
    IF Stopping THEN \A p \in Read : Before(p, Cursor)
    ELSE \A p \in Places : Before(p, Cursor) => LineAt(p).kind # "quit"

\* What the text says of the next line is set, or will be by the command that is handled.
SettingsInv ==
  scriptPc # "over" /\ ~stop =>
    /\ settings.resultsize = Said("size", Cursor, NoSize)
    /\ Said("set", Cursor, NoName) =
         IF Handling /\ then.kind = "set" THEN then.of ELSE settings.queryname

\* The query at a place runs, or waits to be run, with what the text says of it.
IsQueryAt(p, text, name, resultsize) ==
  /\ text = LineAt(p).of
  /\ name = Said("set", p, NoName)
  /\ LineAt(p).kind = "end" => resultsize = Said("size", p, NoSize)

\* The statements that wait are the queries that were read and not run.
WaitingInv ==
  scriptPc # "over" =>
    /\ IsFiniteSet(TakenBefore(Cursor))
    /\ Cardinality(TakenBefore(Cursor)) = Len(ran) + Len(Top.statements)
    /\ \A j \in DOMAIN Top.statements : \E p \in TakenBefore(Cursor) :
         /\ NumberOf(p) = Len(ran) + j
         /\ IsQueryAt(p, Top.statements[j], settings.queryname, settings.resultsize)
         /\ LineAt(p).kind = "end" => Handling

\* A plan is one for the query whose name it was stored under.
IsPlan(x, name, p) ==
  \E q \in Queries :
    /\ Said("set", q, NoName) = name
    /\ x = [query |-> [text |-> LineAt(q).of, schema |-> p.schema], algorithm |-> p.algorithm]

PlansInv ==
  /\ \A k \in DOMAIN plans :
       /\ k = <<k[1], k[2]>>
       /\ IsPlan(plans[k].plan, k[1], [schema |-> plans[k].schema, algorithm |-> k[2]])
  /\ scriptPc = "execute" => IsPlan(plan, settings.queryname, process)

ScriptInv == ReaderInv /\ StopInv /\ SettingsInv /\ WaitingInv /\ AsWritten /\ PlansInv

-----------------------------------------------------------------------------
\* The places of the text.

LEMMA FilesAreSequences ==
  ASSUME script \in Scripts
  PROVE  /\ Main \in DOMAIN script
         /\ \A f \in DOMAIN script :
              /\ Len(script[f]) \in Nat /\ DOMAIN script[f] = 1 .. Len(script[f])
              /\ \A n \in DOMAIN script[f] :
                   /\ script[f][n].kind \in Commands \union {"end", "loose", "part", "size"}
                   /\ script[f][n].kind = "include" => f = Main /\ script[f][n].of \in DOMAIN script \ {Main}
  BY ScriptsAssumption

LEMMA PlaceIsPair ==
  ASSUME script \in Scripts
  PROVE  /\ \A p \in Places : p = <<p[1], p[2]>> /\ p[1] \in Nat /\ p[2] \in Nat
         /\ \A n \in Nat, m \in Nat :
              <<n, m>> \in Places <=> n \in DOMAIN script[Main] /\ m \in {0} \union DOMAIN Included(n)
<1>1. \A n \in DOMAIN script[Main] : n \in Nat
  BY FilesAreSequences
<1>2. ASSUME NEW n \in DOMAIN script[Main], NEW m \in DOMAIN Included(n) PROVE m \in Nat
  <2>1. CASE script[Main][n].kind = "include"
    <3>1. Included(n) = script[script[Main][n].of] /\ script[Main][n].of \in DOMAIN script
      BY <2>1, FilesAreSequences DEF Included
    <3> QED
      BY <1>2, <3>1, FilesAreSequences
  <2>2. CASE script[Main][n].kind # "include"
    BY <1>2, <2>2 DEF Included
  <2> QED
    BY <2>1, <2>2
<1>3. ASSUME NEW p \in Places PROVE p = <<p[1], p[2]>> /\ p[1] \in Nat /\ p[2] \in Nat
  <2>1. PICK n \in DOMAIN script[Main] : p \in {<<n, m>> : m \in {0} \union DOMAIN Included(n)}
    BY DEF Places
  <2>2. PICK m \in {0} \union DOMAIN Included(n) : p = <<n, m>>
    BY <2>1
  <2> QED
    BY <1>1, <1>2, <2>2
<1>4. ASSUME NEW n \in Nat, NEW m \in Nat
      PROVE  <<n, m>> \in Places <=> n \in DOMAIN script[Main] /\ m \in {0} \union DOMAIN Included(n)
  BY DEF Places
<1> QED
  BY <1>3, <1>4

LEMMA PlacesAreOrdered ==
  ASSUME script \in Scripts
  PROVE  /\ \A p \in Places : ~Before(p, p)
         /\ \A p, q \in Places : p = q \/ Before(p, q) \/ Before(q, p)
         /\ \A p, q \in Places : Before(p, q) => ~Before(q, p)
         /\ \A p, q, r \in Places : Before(p, q) /\ Before(q, r) => Before(p, r)
<1>1. \A p \in Places : p = <<p[1], p[2]>> /\ p[1] \in Nat /\ p[2] \in Nat
  BY PlaceIsPair
<1>2. \A p \in Places : ~Before(p, p)
  BY <1>1 DEF Before
<1>3. \A p, q \in Places : p = q \/ Before(p, q) \/ Before(q, p)
  BY <1>1 DEF Before
<1>4. \A p, q \in Places : Before(p, q) => ~Before(q, p)
  BY <1>1 DEF Before
<1>5. \A p, q, r \in Places : Before(p, q) /\ Before(q, r) => Before(p, r)
  BY <1>1 DEF Before
<1> QED
  BY <1>2, <1>3, <1>4, <1>5

\* d comes directly behind the place c.
IsNext(c, d) == \A p \in Places : Before(p, d) <=> p = c \/ Before(p, c)

LEMMA NextIsRead ==
  ASSUME script \in Scripts, NEW c \in Places, NEW d, IsNext(c, d),
         \A p \in Places : Before(p, c) => LineAt(p).kind # "quit"
  PROVE  /\ c \in Read
         /\ \A p \in Read : Before(p, d) <=> p = c \/ Before(p, c)
         /\ LineAt(c).kind = "quit" => \A p \in Read : Before(p, d)
         /\ LineAt(c).kind # "quit" => \A p \in Places : Before(p, d) => LineAt(p).kind # "quit"
<1>1. c \in Read /\ Read \subseteq Places
  BY DEF Read
<1>2. \A p \in Read : Before(p, d) <=> p = c \/ Before(p, c)
  BY <1>1 DEF IsNext
<1>3. ASSUME LineAt(c).kind = "quit", NEW p \in Read PROVE Before(p, d)
  <2>1. ~Before(c, p) /\ p \in Places
    BY <1>3 DEF Read
  <2> QED
    BY <1>2, <2>1, PlacesAreOrdered
<1> QED
  BY <1>1, <1>2, <1>3 DEF IsNext

LEMMA SaidNext ==
  ASSUME script \in Scripts, NEW c \in Places, NEW d, IsNext(c, d), c \in Read,
         NEW kind, NEW default
  PROVE  Said(kind, d, default) = IF LineAt(c).kind = kind THEN LineAt(c).of ELSE Said(kind, c, default)
<1>1. Read \subseteq Places
  BY DEF Read
<1>2. CASE LineAt(c).kind = kind
  <2> DEFINE before == SayingBefore(kind, d)
             last == Latest(before)
  <2>1. c \in before /\ \A r \in before : r \in Places /\ (r = c \/ Before(r, c))
    BY <1>1, <1>2 DEF SayingBefore, IsNext
  <2>2. last \in before /\ \A r \in before : r = last \/ Before(r, last)
    <3>1. \E q \in before : \A r \in before : r = q \/ Before(r, q)
      BY <2>1
    <3> HIDE DEF before
    <3> QED
      BY <3>1 DEF Latest
  <2> HIDE DEF last
  <2>3. last = c
    BY <2>1, <2>2, PlacesAreOrdered
  <2>4. Said(kind, d, default) = LineAt(last).of
    <3>1. before # {}
      BY <2>1
    <3> QED
      BY <3>1 DEF Said, last
  <2> QED
    BY <1>2, <2>3, <2>4
<1>3. CASE LineAt(c).kind # kind
  <2>1. SayingBefore(kind, d) = SayingBefore(kind, c)
    BY <1>1, <1>3 DEF SayingBefore, IsNext
  <2> QED
    BY <1>3, <2>1 DEF Said
<1> QED
  BY <1>2, <1>3

\* A query that is read is the next one.
LEMMA QueryNext ==
  ASSUME script \in Scripts, NEW c \in Places, NEW d, IsNext(c, d), c \in Read,
         IsFiniteSet(TakenBefore(c))
  PROVE  /\ LineAt(c).kind \in {"end", "loose"} =>
              /\ c \in TakenBefore(d) /\ TakenBefore(d) = TakenBefore(c) \cup {c}
              /\ IsFiniteSet(TakenBefore(d))
              /\ Cardinality(TakenBefore(d)) = Cardinality(TakenBefore(c)) + 1
              /\ NumberOf(c) = Cardinality(TakenBefore(c)) + 1
         /\ LineAt(c).kind \notin {"end", "loose"} => TakenBefore(d) = TakenBefore(c)
<1>1. Read \subseteq Places /\ Queries \subseteq Read
  BY DEF Read, Queries
<1>2. c \notin TakenBefore(c)
  BY PlacesAreOrdered DEF TakenBefore
<1>3. CASE LineAt(c).kind \in {"end", "loose"}
  <2>1. c \in Queries
    BY <1>3 DEF Queries
  <2>2. TakenBefore(d) = TakenBefore(c) \cup {c}
    BY <1>1, <2>1 DEF TakenBefore, IsNext
  <2>3. {q \in Queries : q = c \/ Before(q, c)} = TakenBefore(c) \cup {c}
    BY <2>1 DEF TakenBefore
  <2>4. /\ IsFiniteSet(TakenBefore(c) \cup {c})
        /\ Cardinality(TakenBefore(c) \cup {c}) = Cardinality(TakenBefore(c)) + 1
    BY <1>2, FS_AddElement
  <2> QED
    BY <1>3, <2>2, <2>3, <2>4 DEF NumberOf
<1>4. CASE LineAt(c).kind \notin {"end", "loose"}
  <2>1. c \notin Queries
    BY <1>4 DEF Queries
  <2> QED
    BY <1>1, <1>4, <2>1 DEF TakenBefore, IsNext
<1> QED
  BY <1>3, <1>4

\* Nothing that is read lies between c and d.
SamePlace(c, d) == \A p \in Read : Before(p, c) <=> Before(p, d)

LEMMA SameSaid ==
  ASSUME NEW c, NEW d, SamePlace(c, d)
  PROVE  /\ TakenBefore(c) = TakenBefore(d)
         /\ \A kind, default : Said(kind, c, default) = Said(kind, d, default)
<1>1. Queries \subseteq Read
  BY DEF Queries
<1>2. TakenBefore(c) = TakenBefore(d)
  BY <1>1 DEF TakenBefore, SamePlace
<1>3. ASSUME NEW kind, NEW default PROVE Said(kind, c, default) = Said(kind, d, default)
  <2>1. SayingBefore(kind, c) = SayingBefore(kind, d)
    BY DEF SayingBefore, SamePlace
  <2> QED
    BY <2>1 DEF Said
<1> QED
  BY <1>2, <1>3

\* The text does not change.
LEMMA SameText ==
  ASSUME UNCHANGED script
  PROVE  /\ Places' = Places /\ Read' = Read /\ Queries' = Queries
         /\ \A p : LineAt(p)' = LineAt(p)
         /\ \A p : TakenBefore(p)' = TakenBefore(p)
         /\ \A p : NumberOf(p)' = NumberOf(p)
         /\ \A kind, p, default : Said(kind, p, default)' = Said(kind, p, default)
         /\ NamesUnique' = NamesUnique
         /\ \A x, name, p : IsPlan(x, name, p)' = IsPlan(x, name, p)
         /\ \A p, text, name, size : IsQueryAt(p, text, name, size)' = IsQueryAt(p, text, name, size)
<1>1. \A n : Included(n)' = Included(n)
  BY DEF Included
<1>2. Places' = Places
  BY <1>1 DEF Places
<1>3. \A p : LineAt(p)' = LineAt(p)
  BY <1>1 DEF LineAt
<1>4. Read' = Read
  BY <1>2, <1>3 DEF Read, Before
<1>5. Queries' = Queries
  BY <1>3, <1>4 DEF Queries
<1>6. \A p : TakenBefore(p)' = TakenBefore(p)
  BY <1>5 DEF TakenBefore, Before
<1>7. \A p : NumberOf(p)' = NumberOf(p)
  BY <1>5 DEF NumberOf, Before
<1>8. \A kind, p : SayingBefore(kind, p)' = SayingBefore(kind, p)
  BY <1>3, <1>4 DEF SayingBefore, Before
<1>9. \A kind, p, default : Said(kind, p, default)' = Said(kind, p, default)
  BY <1>3, <1>8 DEF Said
<1>10. NamesUnique' = NamesUnique
  BY <1>3, <1>5, <1>9 DEF NamesUnique
<1>11. \A x, name, p : IsPlan(x, name, p)' = IsPlan(x, name, p)
  BY <1>3, <1>5, <1>9 DEF IsPlan
<1>12. \A p, text, name, size : IsQueryAt(p, text, name, size)' = IsQueryAt(p, text, name, size)
  BY <1>3, <1>9 DEF IsQueryAt
<1> QED
  BY <1>2, <1>3, <1>4, <1>5, <1>6, <1>7, <1>9, <1>10, <1>11, <1>12

-----------------------------------------------------------------------------
\* Calls of executeSQL.
LEMMA FramesHave ==
  ASSUME FramesInv
  PROVE  /\ IsFrame(Top) /\ frames # <<>>
         /\ \/ Len(frames) = 1 /\ frames = <<frames[1]>> /\ Top = frames[1] /\ Top.file = Main
            \/ /\ Len(frames) = 2 /\ frames = <<frames[1], frames[2]>> /\ Top = frames[2]
               /\ IsFrame(frames[1]) /\ frames[1].file = Main /\ frames[1].line > 1
               /\ frames[1].statements = <<>> /\ ~frames[1].open
               /\ script[Main][frames[1].line - 1].kind = "include"
               /\ Top.file = script[Main][frames[1].line - 1].of
<1>1. CASE frames = <<frames[1]>> /\ IsFrame(frames[1]) /\ frames[1].file = Main
  <2>1. Top = frames[1]
    BY <1>1, OneFrame DEF Top
  <2>2. Len(frames) = 1 /\ frames # <<>>
    BY <1>1
  <2> QED
    BY <1>1, <2>1, <2>2
<1>2. CASE /\ frames = <<frames[1], frames[2]>> /\ IsFrame(frames[1]) /\ IsFrame(frames[2])
           /\ frames[1].file = Main /\ frames[1].line > 1
           /\ frames[1].statements = <<>> /\ ~frames[1].open
           /\ script[Main][frames[1].line - 1].kind = "include"
           /\ frames[2].file = script[Main][frames[1].line - 1].of
  <2>1. Top = frames[2]
    BY <1>2, TwoFrames DEF Top
  <2>2. Len(frames) = 2 /\ frames # <<>>
    <3>1. PICK a, b : frames = <<a, b>>
      BY <1>2
    <3> QED
      BY <3>1
  <2> QED
    BY <1>2, <2>1, <2>2
<1> QED
  BY <1>1, <1>2 DEF FramesInv

\* A top that is replaced by one of the same file.
LEMMA SetTopFrames ==
  ASSUME FramesInv, UNCHANGED script, NEW line, NEW statements, NEW open,
         SetTop(line, statements, open),
         line \in 1 .. Len(script[Top.file]) + 1, IsSequence(statements), open \in BOOLEAN
  PROVE  /\ FramesInv' /\ Top'.statements = statements /\ Top'.open = open
         /\ Top'.file = Top.file /\ Top'.line = line
         /\ Len(frames') = Len(frames)
         /\ frames'[Len(frames)].line = line
         /\ Len(frames) = 2 => frames'[1] = frames[1]
<1> DEFINE f == [file |-> Top.file, line |-> line, statements |-> statements, open |-> open]
<1>0. /\ f.file = Top.file /\ f.statements = statements /\ f.line = line /\ f.open = open
      /\ IsFrame(f) /\ frames' = Append(Front(frames), f)
  BY FramesHave DEF IsFrame, SetTop
<1> HIDE DEF f
<1>1. CASE Len(frames) = 1
  <2>1. frames' = <<f>>
    BY <1>0, <1>1, FramesHave, OneFrame
  <2>2. f.file = Main
    BY <1>0, <1>1, FramesHave
  <2>3. Top' = f
    BY <2>1, OneFrame DEF Top
  <2>4. FramesInv'
    BY <1>0, <2>1, <2>2 DEF FramesInv, IsFrame
  <2> QED
    BY <1>0, <1>1, <2>1, <2>3, <2>4
<1>2. CASE Len(frames) = 2
  <2>1. frames' = <<frames[1], f>>
    BY <1>0, <1>2, FramesHave, TwoFrames
  <2>2. Top' = f
    BY <2>1, TwoFrames DEF Top
  <2>3. FramesInv'
    <3>1. frames'[1] = frames[1] /\ frames'[2] = f
      BY <2>1
    <3>2. /\ frames' = <<frames'[1], frames'[2]>> /\ IsFrame(frames'[1]) /\ IsFrame(frames'[2])
          /\ frames'[1].file = Main /\ frames'[1].line > 1
          /\ frames'[1].statements = <<>> /\ ~frames'[1].open
          /\ script[Main][frames'[1].line - 1].kind = "include"
          /\ frames'[2].file = script[Main][frames'[1].line - 1].of
      BY <1>0, <1>2, <2>1, <3>1, FramesHave
    <3> QED
      BY <3>2 DEF FramesInv, IsFrame
  <2> QED
    BY <1>0, <1>2, <2>1, <2>2, <2>3
<1> QED
  BY <1>1, <1>2, FramesHave

LineKinds == Commands \union {"end", "loose", "part", "size"}
Asks(line) == line.kind \in Commands \union {"end"}

\* What becomes of a line.
LEMMA TakeLineDoes ==
  ASSUME FramesInv, UNCHANGED script, NEW line, line.kind \in LineKinds, TakeLine(line),
         scriptPc = "read", Top.line <= Len(script[Top.file]), script \in Scripts,
         settings = [queryname |-> settings.queryname, resultsize |-> settings.resultsize]
  PROVE  /\ scriptPc' = IF Asks(line) THEN "parse" ELSE "read"
         /\ Asks(line) => then' = line
         /\ settings' = IF line.kind = "size"
                        THEN [queryname |-> settings.queryname, resultsize |-> line.of] ELSE settings
         /\ FramesInv' /\ Len(frames') = Len(frames)
         /\ frames'[Len(frames)].line = Top.line + 1
         /\ Len(frames) = 2 => frames'[1] = frames[1]
         /\ Top'.statements = IF line.kind \in {"end", "loose"} THEN Append(Top.statements, line.of)
                              ELSE Top.statements
<1>1. /\ Top.file \in DOMAIN script /\ Top.line \in 1 .. Len(script[Top.file]) + 1
      /\ IsSequence(Top.statements) /\ Top.open \in BOOLEAN
  BY FramesHave DEF IsFrame
<1>2. Len(script[Top.file]) \in Nat
  BY <1>1, FilesAreSequences
<1>3. Top.line + 1 \in 1 .. Len(script[Top.file]) + 1
  BY <1>1, <1>2
<1>4. IsSequence(Append(Top.statements, line.of))
  BY <1>1, AppendIsSequence
<1>5. ASSUME NEW statements, NEW open \in BOOLEAN, IsSequence(statements),
             SetTop(Top.line + 1, statements, open)
      PROVE  /\ FramesInv' /\ Len(frames') = Len(frames)
             /\ frames'[Len(frames)].line = Top.line + 1
             /\ Len(frames) = 2 => frames'[1] = frames[1]
             /\ Top'.statements = statements
  BY <1>3, <1>5, SetTopFrames
<1>6. CASE line.kind \in Commands
  <2>1. /\ scriptPc' = "parse" /\ then' = line /\ settings' = settings
        /\ SetTop(Top.line + 1, Top.statements, Top.open)
    BY <1>6 DEF TakeLine, Commands
  <2>2. line.kind \notin {"end", "loose", "size"} /\ Asks(line)
    BY <1>6 DEF Commands, Asks
  <2> QED
    BY <1>1, <1>5, <2>1, <2>2
<1>7. CASE line.kind = "end"
  <2>1. /\ scriptPc' = "parse" /\ then' = line /\ settings' = settings
        /\ SetTop(Top.line + 1, Append(Top.statements, line.of), FALSE)
    BY <1>7 DEF TakeLine, Commands
  <2>2. Asks(line)
    BY <1>7 DEF Commands, Asks
  <2> QED
    BY <1>4, <1>5, <1>7, <2>1, <2>2
<1>8. CASE line.kind = "loose"
  <2>1. /\ scriptPc' = scriptPc /\ settings' = settings
        /\ SetTop(Top.line + 1, Append(Top.statements, line.of), FALSE)
    BY <1>8 DEF TakeLine, Commands
  <2>2. ~Asks(line)
    BY <1>8 DEF Commands, Asks
  <2> QED
    BY <1>4, <1>5, <1>8, <2>1, <2>2
<1>9. CASE line.kind = "part"
  <2>1. scriptPc' = scriptPc /\ settings' = settings /\ SetTop(Top.line + 1, Top.statements, TRUE)
    BY <1>9 DEF TakeLine, Commands
  <2>2. ~Asks(line)
    BY <1>9 DEF Commands, Asks
  <2> QED
    BY <1>1, <1>5, <1>9, <2>1, <2>2
<1>10. CASE line.kind = "size"
  <2>1. /\ scriptPc' = scriptPc /\ settings' = [settings EXCEPT !.resultsize = line.of]
        /\ SetTop(Top.line + 1, Top.statements, Top.open)
    BY <1>10 DEF TakeLine, Commands
  <2>2. ~Asks(line)
    BY <1>10 DEF Commands, Asks
  <2>3. settings' = [queryname |-> settings.queryname, resultsize |-> line.of]
    BY <2>1
  <2> QED
    BY <1>1, <1>5, <1>10, <2>1, <2>2, <2>3
<1> QED
  BY <1>6, <1>7, <1>8, <1>9, <1>10 DEF LineKinds

-----------------------------------------------------------------------------
\* Lines are read.
LEMMA PlaceOfLine ==
  ASSUME ReaderInv, scriptPc = "read", Top.line <= Len(script[Top.file])
  PROVE  /\ Cursor \in Places /\ Cursor = <<Cursor[1], Cursor[2]>>
         /\ LineAt(Cursor) = script[Top.file][Top.line]
         /\ LineAt(Cursor).kind \in LineKinds
         /\ Len(frames) = 1 => Cursor = <<Top.line, 0>>
         /\ Len(frames) = 2 => /\ Cursor = <<frames[1].line - 1, Top.line>>
                               /\ Included(frames[1].line - 1) = script[Top.file]
                               /\ LineAt(Cursor).kind # "include"
<1>1. FramesInv /\ script \in Scripts
  BY DEF ReaderInv
<1>2. IsFrame(Top) /\ Top.file \in DOMAIN script /\ Top.line \in 1 .. Len(script[Top.file]) + 1
  BY <1>1, FramesHave DEF IsFrame
<1>3. Len(script[Top.file]) \in Nat /\ Top.line \in DOMAIN script[Top.file] /\ Top.line \in Nat \ {0}
  BY <1>1, <1>2, FilesAreSequences
<1>4. ~Handling
  BY DEF Handling
<1>5. script[Top.file][Top.line].kind \in LineKinds
  BY <1>1, <1>2, <1>3, FilesAreSequences DEF LineKinds
<1>6. CASE Len(frames) = 1
  <2>1. Top = frames[1] /\ Top.file = Main
    BY <1>1, <1>6, FramesHave
  <2>2. Cursor = <<Top.line, 0>>
    BY <1>4, <1>6, <2>1 DEF Cursor
  <2>3. Cursor \in Places
    BY <1>1, <1>3, <2>1, <2>2, PlaceIsPair
  <2>4. LineAt(Cursor) = script[Top.file][Top.line]
    BY <2>1, <2>2 DEF LineAt
  <2> QED
    BY <1>5, <1>6, <2>2, <2>3, <2>4
<1>7. CASE Len(frames) = 2
  <2> DEFINE n == frames[1].line - 1
  <2>1. /\ IsFrame(frames[1]) /\ frames[1].file = Main /\ frames[1].line > 1 /\ Top = frames[2]
        /\ script[Main][n].kind = "include" /\ Top.file = script[Main][n].of
    BY <1>1, <1>7, FramesHave
  <2>2. n \in DOMAIN script[Main] /\ n \in Nat
    BY <1>1, <2>1, FilesAreSequences DEF IsFrame
  <2>3. Cursor = <<n, Top.line>>
    BY <1>7, <2>1 DEF Cursor
  <2>4. Included(n) = script[Top.file]
    BY <2>1 DEF Included
  <2>5. Cursor \in Places
    BY <1>1, <1>3, <2>2, <2>3, <2>4, PlaceIsPair
  <2>6. LineAt(Cursor) = script[Top.file][Top.line]
    BY <1>3, <2>3, <2>4 DEF LineAt
  <2>7. Top.file # Main
    BY <1>1, <2>1, <2>2, FilesAreSequences
  <2>8. LineAt(Cursor).kind # "include"
    BY <1>1, <1>2, <1>3, <2>6, <2>7, FilesAreSequences
  <2> QED
    BY <1>5, <1>7, <2>3, <2>4, <2>5, <2>6, <2>8
<1> QED
  BY <1>1, <1>6, <1>7, FramesHave

LEMMA ReadLineDoes ==
  ASSUME ReaderInv, ReadLine
  PROVE  /\ ReaderInv'
         /\ IsNext(Cursor, Cursor')
         /\ Asks(LineAt(Cursor)) => Handling' /\ then' = LineAt(Cursor)
         /\ ~Asks(LineAt(Cursor)) => ~Handling'
         /\ settings' = IF LineAt(Cursor).kind = "size"
                        THEN [queryname |-> settings.queryname, resultsize |-> LineAt(Cursor).of]
                        ELSE settings
         /\ Top'.statements =
              IF LineAt(Cursor).kind \in {"end", "loose"}
              THEN Append(Top.statements, LineAt(Cursor).of) ELSE Top.statements
<1> DEFINE line == script[Top.file][Top.line]
<1>1. /\ scriptPc = "read" /\ ~stop /\ Top.line <= Len(script[Top.file]) /\ TakeLine(line)
      /\ UNCHANGED <<script, process, stop, plan, plans, starts, ran>>
  BY DEF ReadLine, HandleLine
<1>2. FramesInv /\ script \in Scripts /\ IsFrame(Top)
      /\ settings = [queryname |-> settings.queryname, resultsize |-> settings.resultsize]
  BY <1>1, FramesHave DEF ReaderInv
<1>3. /\ Cursor \in Places /\ Cursor = <<Cursor[1], Cursor[2]>>
      /\ LineAt(Cursor) = line
      /\ line.kind \in LineKinds
      /\ Len(frames) = 1 => Cursor = <<Top.line, 0>>
      /\ Len(frames) = 2 => /\ Cursor = <<frames[1].line - 1, Top.line>>
                            /\ Included(frames[1].line - 1) = script[Top.file]
                            /\ line.kind # "include"
  BY <1>1, PlaceOfLine
<1> HIDE DEF line
<1>4. /\ scriptPc' = IF Asks(line) THEN "parse" ELSE "read"
      /\ Asks(line) => then' = line
      /\ settings' = IF line.kind = "size"
                     THEN [queryname |-> settings.queryname, resultsize |-> line.of] ELSE settings
      /\ FramesInv' /\ Len(frames') = Len(frames)
      /\ frames'[Len(frames)].line = Top.line + 1
      /\ Len(frames) = 2 => frames'[1] = frames[1]
      /\ Top'.statements = IF line.kind \in {"end", "loose"} THEN Append(Top.statements, line.of)
                           ELSE Top.statements
  BY <1>1, <1>2, <1>3, TakeLineDoes
<1>5. /\ Asks(line) => Handling' /\ then' = line
      /\ ~Asks(line) => ~Handling'
  BY <1>4 DEF Handling
<1>6. Top.line \in Nat \ {0} /\ Top.line \in DOMAIN script[Top.file] /\ Top.file \in DOMAIN script
  BY <1>1, <1>2, FilesAreSequences DEF IsFrame
<1>7. \A p \in Places : p = <<p[1], p[2]>> /\ p[1] \in Nat /\ p[2] \in Nat
  BY <1>2, PlaceIsPair
<1>8. IsNext(Cursor, Cursor')
  <2>1. CASE Len(frames) = 1
    <3>1. Top = frames[1] /\ Top.file = Main
      BY <1>2, <2>1, FramesHave
    <3>2. CASE line.kind = "include"
      <4>1. Cursor' = <<Top.line, 1>>
        <5>1. Handling' /\ then'.kind = "include" /\ Len(frames') = 1
          BY <1>4, <1>5, <2>1, <3>2 DEF Asks, Commands
        <5>2. frames'[1].line - 1 = Top.line
          BY <1>4, <1>6, <2>1
        <5> QED
          BY <5>1, <5>2 DEF Cursor
      <4>2. IsNext(<<Top.line, 0>>, <<Top.line, 1>>)
        BY <1>6, <1>7 DEF IsNext, Before
      <4> QED
        BY <1>3, <2>1, <4>1, <4>2 DEF IsNext, Before
    <3>3. CASE line.kind # "include"
      <4>1. Cursor' = <<Top.line + 1, 0>>
        <5>1. ~(Handling' /\ then'.kind = "include") /\ Len(frames') = 1
          BY <1>4, <1>5, <2>1, <3>3
        <5>2. frames'[1].line = Top.line + 1
          BY <1>4, <2>1
        <5> QED
          BY <5>1, <5>2 DEF Cursor
      <4>2. Included(Top.line) = <<>>
        BY <3>1, <3>3 DEF Included, line
      <4>3. \A p \in Places : p[1] = Top.line => p[2] = 0
        <5>1. ASSUME NEW p \in Places, p[1] = Top.line PROVE p[2] = 0
          <6>1. p[2] \in {0} \union DOMAIN Included(Top.line)
            BY <1>2, <1>7, <5>1, PlaceIsPair
          <6> QED
            BY <4>2, <6>1
        <5> QED
          BY <5>1
      <4>4. IsNext(<<Top.line, 0>>, <<Top.line + 1, 0>>)
        BY <1>6, <1>7, <4>3 DEF IsNext, Before
      <4> QED
        BY <1>3, <2>1, <4>1, <4>4 DEF IsNext, Before
    <3> QED
      BY <3>2, <3>3
  <2>2. CASE Len(frames) = 2
    <3> DEFINE n == frames[1].line - 1
    <3>1. Cursor' = <<n, Top.line + 1>>
      BY <1>4, <2>2 DEF Cursor
    <3>2. n \in Int
      BY <1>2, <2>2, FramesHave, FilesAreSequences DEF IsFrame
    <3>3. IsNext(<<n, Top.line>>, <<n, Top.line + 1>>)
      BY <1>6, <1>7, <3>2 DEF IsNext, Before
    <3> QED
      BY <1>3, <2>2, <3>1, <3>3 DEF IsNext, Before
  <2> QED
    BY <1>2, <2>1, <2>2, FramesHave
<1>9. ReaderInv'
  <2>1. ASSUME then'.kind = "include", Handling'
        PROVE  Len(frames') = 1 /\ frames'[1].line > 1 /\ script[Main][frames'[1].line - 1] = then'
    <3>1. Asks(line) /\ then' = line
      BY <1>5, <2>1
    <3>2. Len(frames) = 1
      BY <1>2, <1>3, <2>1, <3>1, FramesHave
    <3>3. frames'[1].line = Top.line + 1 /\ Top.file = Main
      BY <1>2, <1>4, <3>2, FramesHave
    <3>4. (Top.line + 1) - 1 = Top.line /\ Top.line + 1 > 1
      BY <1>6
    <3> QED
      BY <1>4, <3>1, <3>2, <3>3, <3>4 DEF line
  <2>2. /\ script' \in Scripts /\ stop' \in BOOLEAN /\ IsSequence(ran')
        /\ scriptPc' \in {"read", "parse"}
        /\ settings' = [queryname |-> settings'.queryname, resultsize |-> settings'.resultsize]
    <3>1. stop \in BOOLEAN /\ IsSequence(ran)
      BY DEF ReaderInv
    <3> QED
      BY <1>1, <1>2, <1>4, <3>1
  <2>3. Handling' => then'.kind # "eof"
    BY <1>3, <1>5 DEF LineKinds, Commands
  <2> QED
    BY <1>1, <1>4, <2>1, <2>2, <2>3 DEF ReaderInv, IsSequence
<1> QED
  BY <1>3, <1>4, <1>5, <1>8, <1>9

LEMMA ReadLineKeeps ==
  ASSUME ScriptInv, ReadLine
  PROVE  ReaderInv' /\ StopInv' /\ SettingsInv' /\ WaitingInv'
<1> DEFINE line == LineAt(Cursor)
<1>1. /\ scriptPc = "read" /\ ~stop /\ Top.line <= Len(script[Top.file])
      /\ UNCHANGED <<script, stop, ran>> /\ ~Handling /\ ~Stopping
  BY DEF ReadLine, Handling, Stopping
<1>2. ReaderInv /\ script \in Scripts /\ FramesInv /\ IsSequence(ran)
  BY <1>1 DEF ScriptInv, ReaderInv
<1>3. PICK c : c = Cursor
  OBVIOUS
<1>4. PICK d : d = Cursor'
  OBVIOUS
<1>5. c \in Places /\ line = LineAt(c) /\ line.kind \in LineKinds
  BY <1>1, <1>2, <1>3, PlaceOfLine
<1>6. /\ ReaderInv'
      /\ Asks(line) => Handling' /\ then' = line
      /\ ~Asks(line) => ~Handling'
      /\ settings' = IF line.kind = "size"
                     THEN [queryname |-> settings.queryname, resultsize |-> line.of] ELSE settings
      /\ Top'.statements = IF line.kind \in {"end", "loose"} THEN Append(Top.statements, line.of)
                           ELSE Top.statements
  BY <1>2, ReadLineDoes
<1>7. IsNext(c, d)
  <2>1. IsNext(Cursor, Cursor')
    BY <1>2, ReadLineDoes
  <2> QED
    BY <1>3, <1>4, <2>1 DEF IsNext, Before
<1> HIDE DEF line
<1>8. \A p \in Places : Before(p, c) => LineAt(p).kind # "quit"
  BY <1>1, <1>3 DEF ScriptInv, StopInv, Before
<1>9. /\ c \in Read
      /\ \A p \in Read : Before(p, d) <=> p = c \/ Before(p, c)
      /\ line.kind = "quit" => \A p \in Read : Before(p, d)
      /\ line.kind # "quit" => \A p \in Places : Before(p, d) => LineAt(p).kind # "quit"
  BY <1>2, <1>5, <1>7, <1>8, NextIsRead
<1>10. /\ Asks(line) <=> line.kind \in {"set", "include", "quit", "end"}
       /\ Stopping' <=> line.kind = "quit"
  <2>1. Asks(line) <=> line.kind \in {"set", "include", "quit", "end"}
    BY DEF Asks, Commands
  <2> QED
    BY <1>1, <1>6, <2>1 DEF Stopping
<1>11. StopInv'
  BY <1>1, <1>4, <1>9, <1>10, SameText DEF StopInv, Before
<1>12. \A kind, default :
         Said(kind, d, default) = IF line.kind = kind THEN line.of ELSE Said(kind, c, default)
  BY <1>2, <1>5, <1>7, <1>9, SaidNext
<1>13. /\ settings.resultsize = Said("size", c, NoSize)
       /\ Said("set", c, NoName) = settings.queryname
  BY <1>1, <1>3 DEF ScriptInv, SettingsInv
<1>14. SettingsInv'
  <2>1. settings'.resultsize = Said("size", d, NoSize)
    BY <1>6, <1>12, <1>13
  <2>2. settings'.queryname = settings.queryname
    BY <1>6
  <2>3. Said("set", d, NoName) =
          IF Handling' /\ then'.kind = "set" THEN then'.of ELSE settings'.queryname
    BY <1>6, <1>10, <1>12, <1>13, <2>2
  <2> QED
    BY <1>1, <1>4, <2>1, <2>3, SameText DEF SettingsInv
<1>15. /\ IsFiniteSet(TakenBefore(c))
       /\ Cardinality(TakenBefore(c)) = Len(ran) + Len(Top.statements)
       /\ \A j \in DOMAIN Top.statements : \E p \in TakenBefore(c) :
            /\ NumberOf(p) = Len(ran) + j
            /\ IsQueryAt(p, Top.statements[j], settings.queryname, settings.resultsize)
            /\ LineAt(p).kind # "end"
  BY <1>1, <1>3 DEF ScriptInv, WaitingInv
<1>16. /\ IsSequence(Top.statements) /\ Len(Top.statements) \in Nat /\ Len(ran) \in Nat
       /\ DOMAIN Top.statements = 1 .. Len(Top.statements)
  BY <1>2, FramesHave, SequenceLength DEF IsFrame
\* What waits already has its name, and no size.
<1>17. ASSUME NEW j \in DOMAIN Top.statements
       PROVE  \E p \in TakenBefore(c) :
                /\ NumberOf(p) = Len(ran) + j
                /\ IsQueryAt(p, Top.statements[j], settings'.queryname, settings'.resultsize)
                /\ LineAt(p).kind # "end"
  <2>1. settings'.queryname = settings.queryname
    BY <1>6
  <2> QED
    BY <1>15, <2>1 DEF IsQueryAt
<1>18. /\ IsFiniteSet(TakenBefore(d))
       /\ Cardinality(TakenBefore(d)) = Len(ran) + Len(Top'.statements)
       /\ \A j \in DOMAIN Top'.statements : \E p \in TakenBefore(d) :
            /\ NumberOf(p) = Len(ran) + j
            /\ IsQueryAt(p, Top'.statements[j], settings'.queryname, settings'.resultsize)
            /\ LineAt(p).kind = "end" => Handling'
  <2>1. CASE line.kind \in {"end", "loose"}
    <3>1. /\ c \in TakenBefore(d) /\ TakenBefore(d) = TakenBefore(c) \cup {c}
          /\ IsFiniteSet(TakenBefore(d))
          /\ Cardinality(TakenBefore(d)) = Cardinality(TakenBefore(c)) + 1
          /\ NumberOf(c) = Cardinality(TakenBefore(c)) + 1
      BY <1>2, <1>5, <1>7, <1>9, <1>15, <2>1, QueryNext
    <3> DEFINE s == Top'.statements
    <3>2. /\ IsSequence(s) /\ Len(s) = Len(Top.statements) + 1
          /\ \A j \in 1 .. Len(Top.statements) : s[j] = Top.statements[j]
          /\ s[Len(Top.statements) + 1] = line.of
      BY <1>6, <1>16, <2>1, AppendIsSequence
    <3>3. DOMAIN s = 1 .. Len(Top.statements) + 1
      BY <3>2, SequenceLength
    <3> HIDE DEF s
    <3>4. ASSUME NEW j \in DOMAIN s
          PROVE  \E p \in TakenBefore(d) :
                   /\ NumberOf(p) = Len(ran) + j
                   /\ IsQueryAt(p, s[j], settings'.queryname, settings'.resultsize)
                   /\ LineAt(p).kind = "end" => Handling'
      <4>1. CASE j \in 1 .. Len(Top.statements)
        BY <1>16, <1>17, <3>1, <3>2, <4>1
      <4>2. CASE j = Len(Top.statements) + 1
        <5>1. NumberOf(c) = Len(ran) + j
          BY <1>15, <1>16, <3>1, <4>2
        <5>2. IsQueryAt(c, s[j], settings'.queryname, settings'.resultsize)
          BY <1>5, <1>6, <1>13, <2>1, <3>2, <4>2 DEF IsQueryAt
        <5>3. LineAt(c).kind = "end" => Handling'
          BY <1>5, <1>6, <1>10
        <5> QED
          BY <3>1, <5>1, <5>2, <5>3
      <4> QED
        BY <1>16, <3>3, <4>1, <4>2
    <3>5. Cardinality(TakenBefore(d)) = Len(ran) + Len(s)
      BY <1>15, <1>16, <3>1, <3>2
    <3> QED
      BY <3>1, <3>4, <3>5 DEF s
  <2>2. CASE line.kind \notin {"end", "loose"}
    <3>1. TakenBefore(d) = TakenBefore(c)
      BY <1>2, <1>5, <1>7, <1>9, <1>15, <2>2, QueryNext
    <3>2. Top'.statements = Top.statements
      BY <1>6, <2>2
    <3> QED
      BY <1>15, <1>17, <3>1, <3>2
  <2> QED
    BY <2>1, <2>2
<1>19. WaitingInv'
  BY <1>1, <1>4, <1>18, SameText DEF WaitingInv
<1> QED
  BY <1>6, <1>11, <1>14, <1>19

-----------------------------------------------------------------------------
\* The other steps.  A step that leaves the text that was read as it is.
LEMMA KeepsPlace ==
  ASSUME ScriptInv, scriptPc # "over", UNCHANGED script,
         NEW c, c = Cursor, NEW d, d = Cursor',
         Stopping' <=> Stopping,
         Stopping => \A p \in Read : Before(p, d),
         ~Stopping => \A p \in Places : Before(p, c) <=> Before(p, d),
         ~stop' => /\ ~stop /\ settings'.resultsize = settings.resultsize
                   /\ (IF Handling' /\ then'.kind = "set" THEN then'.of ELSE settings'.queryname) =
                      (IF Handling /\ then.kind = "set" THEN then.of ELSE settings.queryname)
  PROVE  StopInv' /\ SettingsInv' /\ SamePlace(c, d)
<1>1. /\ Stopping => \A p \in Read : Before(p, c)
      /\ ~Stopping => \A p \in Places : Before(p, c) => LineAt(p).kind # "quit"
  BY DEF ScriptInv, StopInv, Before
<1>2. SamePlace(c, d)
  BY <1>1 DEF SamePlace, Read
<1>3. StopInv'
  BY <1>1, SameText DEF StopInv, Before
<1>4. ASSUME ~stop'
      PROVE  /\ settings'.resultsize = Said("size", d, NoSize)
             /\ Said("set", d, NoName) =
                  IF Handling' /\ then'.kind = "set" THEN then'.of ELSE settings'.queryname
  <2>1. /\ settings.resultsize = Said("size", c, NoSize)
        /\ Said("set", c, NoName) =
             IF Handling /\ then.kind = "set" THEN then.of ELSE settings.queryname
    BY <1>4 DEF ScriptInv, SettingsInv
  <2>2. \A kind, default : Said(kind, c, default) = Said(kind, d, default)
    BY <1>2, SameSaid
  <2> QED
    BY <1>4, <2>1, <2>2
<1>5. SettingsInv'
  BY <1>4, SameText DEF SettingsInv
<1> QED
  BY <1>2, <1>3, <1>5

\* ... and what waits.
LEMMA KeepsWaiting ==
  ASSUME ScriptInv, scriptPc # "over", UNCHANGED <<script, ran>>,
         NEW c, c = Cursor, NEW d, d = Cursor', SamePlace(c, d),
         Top'.statements = Top.statements,
         Top.statements # <<>> => settings' = settings /\ (Handling => Handling')
  PROVE  WaitingInv'
<1>1. /\ IsFiniteSet(TakenBefore(c))
      /\ Cardinality(TakenBefore(c)) = Len(ran) + Len(Top.statements)
      /\ \A j \in DOMAIN Top.statements : \E p \in TakenBefore(c) :
           /\ NumberOf(p) = Len(ran) + j
           /\ IsQueryAt(p, Top.statements[j], settings.queryname, settings.resultsize)
           /\ LineAt(p).kind = "end" => Handling
  BY DEF ScriptInv, WaitingInv
<1>2. TakenBefore(c) = TakenBefore(d)
  BY SameSaid
<1>3. \A j \in DOMAIN Top.statements : \E p \in TakenBefore(c) :
        /\ NumberOf(p) = Len(ran) + j
        /\ IsQueryAt(p, Top.statements[j], settings'.queryname, settings'.resultsize)
        /\ LineAt(p).kind = "end" => Handling'
  <2>1. CASE Top.statements = <<>>
    BY <2>1
  <2>2. CASE Top.statements # <<>>
    <3>1. settings' = settings /\ (Handling => Handling')
      BY <2>2
    <3> QED
      BY <1>1, <3>1
  <2> QED
    BY <2>1, <2>2
<1>4. /\ IsFiniteSet(TakenBefore(d))
      /\ Cardinality(TakenBefore(d)) = Len(ran') + Len(Top'.statements)
      /\ \A j \in DOMAIN Top'.statements : \E p \in TakenBefore(d) :
           /\ NumberOf(p) = Len(ran') + j
           /\ IsQueryAt(p, Top'.statements[j], settings'.queryname, settings'.resultsize)
           /\ LineAt(p).kind = "end" => Handling'
  BY <1>1, <1>2, <1>3
<1> QED
  BY <1>4, SameText DEF WaitingInv

LEMMA RanKept ==
  ASSUME AsWritten, UNCHANGED <<script, ran>> PROVE AsWritten'
<1>1. \A i \in DOMAIN ran : \E p \in Queries :
        /\ NumberOf(p) = i
        /\ IsQueryAt(p, ran[i].query, ran[i].queryname, ran[i].resultsize)
  BY DEF AsWritten, IsQueryAt
<1>2. \A i \in DOMAIN ran' : \E p \in Queries' :
        /\ NumberOf(p)' = i
        /\ IsQueryAt(p, ran[i].query, ran[i].queryname, ran[i].resultsize)'
  BY <1>1, SameText
<1> QED
  BY <1>2 DEF AsWritten, IsQueryAt

LEMMA PlansKept ==
  ASSUME PlansInv, UNCHANGED <<script, plans>>, scriptPc' # "execute" PROVE PlansInv'
  BY SameText DEF PlansInv, IsPlan

LEMMA QuietKeeps ==
  ASSUME ScriptInv, scriptPc # "over", UNCHANGED <<script, settings, frames, stop, ran>>,
         Handling', (Handling /\ then' = then) \/ (~Handling /\ then' = EndOfFile)
  PROVE  StopInv' /\ SettingsInv' /\ WaitingInv' /\ AsWritten'
<1>1. then'.kind = "include" <=> Handling /\ then.kind = "include"
  BY DEF EndOfFile
<1>2. /\ then'.kind = "quit" <=> Handling /\ then.kind = "quit"
      /\ then'.kind = "set" <=> Handling /\ then.kind = "set"
      /\ Handling => then' = then
  BY DEF EndOfFile
<1>3. Stopping' <=> Stopping
  BY <1>2 DEF Stopping
<1>4. PICK c : c = Cursor
  OBVIOUS
<1>5. c = Cursor'
  BY <1>1, <1>4 DEF Cursor
<1>6. Stopping => \A p \in Read : Before(p, c)
  BY <1>4 DEF ScriptInv, StopInv, Before
<1>7. ~stop' => /\ ~stop /\ settings'.resultsize = settings.resultsize
                /\ (IF Handling' /\ then'.kind = "set" THEN then'.of ELSE settings'.queryname) =
                   (IF Handling /\ then.kind = "set" THEN then.of ELSE settings.queryname)
  BY <1>2
<1>8. StopInv' /\ SettingsInv' /\ SamePlace(c, c)
  BY <1>3, <1>4, <1>5, <1>6, <1>7, KeepsPlace
<1>9. Top'.statements = Top.statements
  BY DEF Top
<1>10. WaitingInv'
  BY <1>4, <1>5, <1>8, <1>9, KeepsWaiting
<1>11. AsWritten'
  BY RanKept DEF ScriptInv
<1> QED
  BY <1>8, <1>10, <1>11

\* The steps that neither take text nor run it.
LEMMA QuietStep ==
  ASSUME ScriptInv, ReadEnd \/ RunStatement \/ LookupCachedPlan \/ GeneratePlan
  PROVE  ScriptInv'
<1>1. /\ UNCHANGED <<script, process, settings, frames, stop, starts, ran>>
      /\ scriptPc \in {"read", "parse", "optimize"}
  BY DEF ReadEnd, RunStatement, LookupCachedPlan, GeneratePlan
<1>2. /\ Handling'
      /\ (Handling /\ then' = then) \/ (~Handling /\ then' = EndOfFile)
      /\ scriptPc' \in {"parse", "optimize", "execute"}
  BY DEF ReadEnd, RunStatement, LookupCachedPlan, GeneratePlan, Handling
<1>3. StopInv' /\ SettingsInv' /\ WaitingInv' /\ AsWritten'
  BY <1>1, <1>2, QuietKeeps
<1>4. /\ script \in Scripts /\ stop \in BOOLEAN /\ IsSequence(ran) /\ FramesInv
      /\ settings = [queryname |-> settings.queryname, resultsize |-> settings.resultsize]
      /\ then.kind = "include" /\ Handling =>
            Len(frames) = 1 /\ frames[1].line > 1 /\ script[Main][frames[1].line - 1] = then
      /\ then.kind = "eof" /\ Handling /\ ~stop => Top.line = Len(script[Top.file]) + 1
      /\ scriptPc \in {"optimize", "execute"} => ~Top.open /\ Top.statements # <<>>
  BY <1>1 DEF ScriptInv, ReaderInv
<1>5. Top' = Top
  BY <1>1 DEF Top
<1>6. FramesInv'
  BY <1>1, <1>4 DEF FramesInv, IsFrame
<1>7. scriptPc' \in {"optimize", "execute"} => ~Top.open /\ Top.statements # <<>>
  BY <1>4 DEF ReadEnd, RunStatement, LookupCachedPlan, GeneratePlan
<1>8. then'.kind = "include" =>
        Len(frames) = 1 /\ frames[1].line > 1 /\ script[Main][frames[1].line - 1] = then'
  BY <1>2, <1>4 DEF EndOfFile
<1>9. then'.kind = "eof" /\ ~stop => Top.line = Len(script[Top.file]) + 1
  <2>1. CASE Handling
    BY <1>2, <1>4, <2>1
  <2>2. CASE ~Handling
    <3>1. ReadEnd
      BY <2>2 DEF RunStatement, LookupCachedPlan, GeneratePlan, Handling
    <3>2. stop \/ Top.line > Len(script[Top.file])
      BY <3>1 DEF ReadEnd
    <3>3. Top.line \in 1 .. Len(script[Top.file]) + 1 /\ Len(script[Top.file]) \in Nat
      BY <1>4, FramesHave, FilesAreSequences DEF IsFrame
    <3> QED
      BY <3>2, <3>3
  <2> QED
    BY <2>1, <2>2
<1>10. ReaderInv'
  BY <1>1, <1>2, <1>4, <1>5, <1>6, <1>7, <1>8, <1>9 DEF ReaderInv, IsSequence
<1>11. PlansInv'
  <2>1. CASE ReadEnd \/ RunStatement
    <3>1. UNCHANGED plans /\ scriptPc' # "execute"
      BY <2>1 DEF ReadEnd, RunStatement
    <3> QED
      BY <1>1, <3>1, PlansKept DEF ScriptInv
  <2>2. CASE LookupCachedPlan
    <3>1. /\ Key = <<settings.queryname, process.algorithm>> /\ Key \in DOMAIN plans
          /\ plans[Key].schema = process.schema /\ plan' = plans[Key].plan /\ plans' = plans
      BY <2>2 DEF LookupCachedPlan, FindsPlan, Key
    <3>2. \A k \in DOMAIN plans :
            /\ k = <<k[1], k[2]>>
            /\ IsPlan(plans[k].plan, k[1], [schema |-> plans[k].schema, algorithm |-> k[2]])
      BY DEF ScriptInv, PlansInv
    <3>3. IsPlan(plan', settings.queryname, [schema |-> process.schema, algorithm |-> process.algorithm])
      BY <3>1, <3>2
    <3>4. IsPlan(plan', settings.queryname, process)
      BY <3>3 DEF IsPlan
    <3> QED
      BY <1>1, <3>1, <3>2, <3>4, SameText DEF PlansInv, IsPlan
  <2>3. CASE GeneratePlan
    <3> DEFINE k0 == <<settings.queryname, process.algorithm>>
               x == [query |-> Current, algorithm |-> process.algorithm]
               row == [schema |-> process.schema, plan |-> x]
    <3>1. /\ plan' = x
          /\ plans' = [k \in DOMAIN plans \union {k0} |-> IF k = k0 THEN row ELSE plans[k]]
      BY <2>3 DEF GeneratePlan, Key
    <3>2. \A k \in DOMAIN plans :
            /\ k = <<k[1], k[2]>>
            /\ IsPlan(plans[k].plan, k[1], [schema |-> plans[k].schema, algorithm |-> k[2]])
      BY DEF ScriptInv, PlansInv
    <3>3. Top.statements # <<>> /\ IsSequence(Top.statements)
      BY <1>4, <2>3, FramesHave DEF GeneratePlan, IsFrame
    <3>4. Head(Top.statements) = Top.statements[1] /\ 1 \in DOMAIN Top.statements
      BY <3>3, TailIsSequence
    <3>5. PICK q \in Queries :
            /\ Head(Top.statements) = LineAt(q).of
            /\ settings.queryname = Said("set", q, NoName)
      <4>1. \A j \in DOMAIN Top.statements : \E p \in TakenBefore(Cursor) :
              IsQueryAt(p, Top.statements[j], settings.queryname, settings.resultsize)
        BY <1>1 DEF ScriptInv, WaitingInv
      <4> QED
        BY <3>4, <4>1 DEF TakenBefore, IsQueryAt
    <3>6. x = [query |-> [text |-> LineAt(q).of, schema |-> process.schema],
               algorithm |-> process.algorithm]
      BY <3>5 DEF Current
    <3> HIDE DEF x
    <3>7. /\ IsPlan(x, settings.queryname, process)
          /\ IsPlan(x, settings.queryname, [schema |-> process.schema, algorithm |-> process.algorithm])
      BY <3>5, <3>6 DEF IsPlan
    <3>8. /\ k0[1] = settings.queryname /\ k0[2] = process.algorithm /\ k0 = <<k0[1], k0[2]>>
          /\ row.schema = process.schema /\ row.plan = x
      OBVIOUS
    <3> HIDE DEF k0, row
    <3>9. ASSUME NEW k \in DOMAIN plans'
          PROVE  /\ k = <<k[1], k[2]>>
                 /\ IsPlan(plans'[k].plan, k[1], [schema |-> plans'[k].schema, algorithm |-> k[2]])
      <4>1. CASE k = k0
        BY <3>1, <3>7, <3>8, <4>1
      <4>2. CASE k # k0
        BY <3>1, <3>2, <4>2
      <4> QED
        BY <4>1, <4>2
    <3> QED
      BY <1>1, <3>1, <3>7, <3>9, SameText DEF PlansInv
  <2> QED
    BY <2>1, <2>2, <2>3
<1> QED
  BY <1>3, <1>10, <1>11 DEF ScriptInv

LEMMA ParseErrorStep ==
  ASSUME ScriptInv, ParseError PROVE ScriptInv'
<1>1. /\ scriptPc' = "over" /\ UNCHANGED <<script, process, settings, frames, stop, then, plan, plans, ran>>
  BY DEF ParseError
<1>2. /\ script \in Scripts /\ stop \in BOOLEAN /\ IsSequence(ran)
      /\ settings = [queryname |-> settings.queryname, resultsize |-> settings.resultsize]
  BY DEF ScriptInv, ReaderInv
<1>3. ReaderInv' /\ StopInv' /\ SettingsInv' /\ WaitingInv'
  BY <1>1, <1>2 DEF ReaderInv, StopInv, SettingsInv, WaitingInv, IsSequence
<1>4. AsWritten' /\ PlansInv'
  BY <1>1, RanKept, PlansKept DEF ScriptInv
<1> QED
  BY <1>3, <1>4 DEF ScriptInv

\* The statement that was run leaves those that wait, and is the next that ran.
LEMMA DoneStep ==
  ASSUME ScriptInv, scriptPc \in {"optimize", "execute"}, NEW p, Done(p)
  PROVE  ScriptInv'
<1> DEFINE s == Top.statements
           entry == [query |-> Head(s), queryname |-> settings.queryname,
                     resultsize |-> settings.resultsize, plan |-> p]
<1>1. /\ UNCHANGED <<script, process, settings, stop, then, plans>>
      /\ scriptPc' = "parse" /\ Handling /\ Handling'
      /\ ran' = Append(ran, entry)
      /\ SetTop(Top.line, Tail(s), Top.open)
  BY DEF Done, Handling
<1>2. /\ script \in Scripts /\ stop \in BOOLEAN /\ IsSequence(ran) /\ FramesInv
      /\ settings = [queryname |-> settings.queryname, resultsize |-> settings.resultsize]
      /\ then.kind = "include" =>
            Len(frames) = 1 /\ frames[1].line > 1 /\ script[Main][frames[1].line - 1] = then
      /\ then.kind = "eof" /\ ~stop => Top.line = Len(script[Top.file]) + 1
      /\ s # <<>>
  BY <1>1 DEF ScriptInv, ReaderInv
<1>3. /\ IsSequence(s) /\ Len(s) \in Nat /\ DOMAIN s = 1 .. Len(s)
      /\ Top.line \in 1 .. Len(script[Top.file]) + 1 /\ Top.open \in BOOLEAN
  BY <1>2, FramesHave, SequenceLength DEF IsFrame
<1>4. /\ IsSequence(Tail(s)) /\ Head(s) = s[1] /\ 1 \in DOMAIN s
      /\ Len(Tail(s)) = Len(s) - 1 /\ Len(Tail(s)) \in Nat
      /\ \A i \in 1 .. Len(Tail(s)) : Tail(s)[i] = s[i + 1]
  BY <1>2, <1>3, TailIsSequence
<1>5. /\ FramesInv' /\ Top'.statements = Tail(s)
      /\ Top'.file = Top.file /\ Top'.line = Top.line
      /\ Len(frames') = Len(frames) /\ frames'[Len(frames)].line = Top.line
      /\ Len(frames) = 2 => frames'[1] = frames[1]
  BY <1>1, <1>2, <1>3, <1>4, SetTopFrames
<1>6. /\ Len(frames) = 1 => frames'[1].line = frames[1].line
      /\ Len(frames) = 2 => frames'[1].line = frames[1].line /\ frames'[2].line = frames[2].line
      /\ Len(frames) \in {1, 2}
  BY <1>2, <1>5, FramesHave
<1> HIDE DEF entry
<1>7. /\ IsSequence(ran') /\ Len(ran') = Len(ran) + 1 /\ Len(ran) \in Nat
      /\ \A i \in 1 .. Len(ran) : ran'[i] = ran[i]
      /\ ran'[Len(ran) + 1] = entry
      /\ DOMAIN ran' = 1 .. Len(ran) + 1 /\ DOMAIN ran = 1 .. Len(ran)
  <2>1. /\ IsSequence(ran') /\ Len(ran') = Len(ran) + 1
        /\ \A i \in 1 .. Len(ran) : ran'[i] = ran[i]
        /\ ran'[Len(ran) + 1] = entry
    BY <1>1, <1>2, AppendIsSequence
  <2> QED
    BY <1>2, <2>1, SequenceLength
<1>8. ReaderInv'
  <2>1. then'.kind = "include" =>
          Len(frames') = 1 /\ frames'[1].line > 1 /\ script[Main][frames'[1].line - 1] = then'
    BY <1>1, <1>2, <1>5, <1>6
  <2>2. then'.kind = "eof" /\ ~stop' => Top'.line = Len(script[Top'.file]) + 1
    BY <1>1, <1>2, <1>5
  <2> QED
    BY <1>1, <1>2, <1>5, <1>7, <2>1, <2>2 DEF ReaderInv, IsSequence
<1>9. PICK c : c = Cursor
  OBVIOUS
<1>10. c = Cursor'
  BY <1>1, <1>5, <1>6, <1>9 DEF Cursor
<1>11. StopInv' /\ SettingsInv' /\ SamePlace(c, c)
  <2>1. Stopping' <=> Stopping
    BY <1>1 DEF Stopping
  <2>2. Stopping => \A q \in Read : Before(q, c)
    BY <1>1, <1>9 DEF ScriptInv, StopInv, Before
  <2> QED
    BY <1>1, <1>9, <1>10, <2>1, <2>2, KeepsPlace
<1>12. /\ IsFiniteSet(TakenBefore(c))
       /\ Cardinality(TakenBefore(c)) = Len(ran) + Len(s)
       /\ \A j \in DOMAIN s : \E q \in TakenBefore(c) :
            /\ NumberOf(q) = Len(ran) + j
            /\ IsQueryAt(q, s[j], settings.queryname, settings.resultsize)
  BY <1>1, <1>9 DEF ScriptInv, WaitingInv
<1>13. WaitingInv'
  <2>1. Cardinality(TakenBefore(c)) = Len(ran') + Len(Tail(s))
    <3>1. Cardinality(TakenBefore(c)) = Len(ran) + Len(s)
      BY <1>12
    <3>2. Len(s) \in Nat /\ Len(Tail(s)) = Len(s) - 1 /\ Len(ran') = Len(ran) + 1 /\ Len(ran) \in Nat
      BY <1>3, <1>4, <1>7
    <3>3. \A m, n \in Nat : m + n = (m + 1) + (n - 1)
      OBVIOUS
    <3>4. Len(ran) + Len(s) = (Len(ran) + 1) + (Len(s) - 1)
      BY <3>2, <3>3
    <3> HIDE DEF s
    <3> QED
      BY <3>1, <3>2, <3>4
  <2>2. ASSUME NEW j \in DOMAIN Tail(s)
        PROVE  \E q \in TakenBefore(c) :
                 /\ NumberOf(q) = Len(ran') + j
                 /\ IsQueryAt(q, Tail(s)[j], settings.queryname, settings.resultsize)
    <3>1. j \in 1 .. Len(Tail(s))
      BY <1>4, SequenceLength
    <3>2. j + 1 \in DOMAIN s /\ Tail(s)[j] = s[j + 1]
      BY <1>3, <1>4, <3>1
    <3>3. PICK q \in TakenBefore(c) :
            /\ NumberOf(q) = Len(ran) + (j + 1)
            /\ IsQueryAt(q, s[j + 1], settings.queryname, settings.resultsize)
      BY <1>12, <3>2
    <3>4. NumberOf(q) = Len(ran') + j
      BY <1>7, <3>1, <3>3
    <3> QED
      BY <3>2, <3>3, <3>4
  <2>3. /\ IsFiniteSet(TakenBefore(c))
        /\ Cardinality(TakenBefore(c)) = Len(ran') + Len(Top'.statements)
        /\ \A j \in DOMAIN Top'.statements : \E q \in TakenBefore(c) :
             /\ NumberOf(q) = Len(ran') + j
             /\ IsQueryAt(q, Top'.statements[j], settings'.queryname, settings'.resultsize)
             /\ LineAt(q).kind = "end" => Handling'
    BY <1>1, <1>5, <1>12, <2>1, <2>2
  <2>4. UNCHANGED script
    BY <1>1
  <2> QED
    BY <1>10, <2>3, <2>4, SameText DEF WaitingInv
<1>14. AsWritten'
  <2>1. \A i \in DOMAIN ran : \E q \in Queries :
          /\ NumberOf(q) = i
          /\ IsQueryAt(q, ran[i].query, ran[i].queryname, ran[i].resultsize)
    BY DEF ScriptInv, AsWritten, IsQueryAt
  <2>2. ASSUME NEW i \in DOMAIN ran'
        PROVE  \E q \in Queries :
                 /\ NumberOf(q) = i
                 /\ IsQueryAt(q, ran'[i].query, ran'[i].queryname, ran'[i].resultsize)
    <3>1. CASE i \in 1 .. Len(ran)
      BY <1>7, <2>1, <3>1
    <3>2. CASE i = Len(ran) + 1
      <4>1. ran'[i] = entry
        BY <1>7, <3>2
      <4>2. /\ entry.query = s[1] /\ entry.queryname = settings.queryname
            /\ entry.resultsize = settings.resultsize
        BY <1>4 DEF entry
      <4>3. PICK q \in TakenBefore(c) :
              /\ NumberOf(q) = Len(ran) + 1
              /\ IsQueryAt(q, s[1], settings.queryname, settings.resultsize)
        BY <1>4, <1>12
      <4>4. q \in Queries
        BY <4>3 DEF TakenBefore
      <4> QED
        BY <3>2, <4>1, <4>2, <4>3, <4>4
    <3> QED
      BY <1>7, <3>1, <3>2
  <2>3. \A i \in DOMAIN ran' : \E q \in Queries' :
          /\ NumberOf(q)' = i
          /\ ran'[i].query = LineAt(q)'.of
          /\ ran'[i].queryname = Said("set", q, NoName)'
          /\ LineAt(q)'.kind = "end" => ran'[i].resultsize = Said("size", q, NoSize)'
    <3>1. UNCHANGED script
      BY <1>1
    <3> QED
      BY <2>2, <3>1, SameText DEF IsQueryAt
  <2> QED
    BY <2>3 DEF AsWritten
<1>15. PlansInv'
  BY <1>1, PlansKept DEF ScriptInv
<1> QED
  BY <1>8, <1>11, <1>13, <1>14, <1>15 DEF ScriptInv

\* Nothing is before the first line.
LEMMA NothingBefore ==
  ASSUME script \in Scripts, NEW c, c = <<1, 0>>
  PROVE  /\ \A p \in Places : ~Before(p, c)
         /\ TakenBefore(c) = {}
         /\ \A kind, default : Said(kind, c, default) = default
<1>1. ASSUME NEW p \in Places PROVE ~Before(p, c)
  <2>1. p = <<p[1], p[2]>> /\ p[1] \in Nat /\ p[2] \in Nat
    BY PlaceIsPair
  <2>2. p[1] \in DOMAIN script[Main]
    BY <2>1, PlaceIsPair
  <2>3. p[1] >= 1
    BY <2>1, <2>2, FilesAreSequences
  <2> QED
    BY <2>1, <2>3 DEF Before
<1>2. Read \subseteq Places /\ Queries \subseteq Read
  BY DEF Read, Queries
<1>3. TakenBefore(c) = {}
  BY <1>1, <1>2 DEF TakenBefore
<1>4. ASSUME NEW kind, NEW default PROVE Said(kind, c, default) = default
  <2>1. SayingBefore(kind, c) = {}
    BY <1>1, <1>2 DEF SayingBefore
  <2> QED
    BY <2>1 DEF Said
<1> QED
  BY <1>1, <1>3, <1>4

\* A process that begins.
Fresh ==
  /\ script \in Scripts
  /\ settings = [queryname |-> NoName, resultsize |-> NoSize]
  /\ frames = <<Frame(Main)>>
  /\ stop = FALSE
  /\ scriptPc = "read"
  /\ ran = <<>>

LEMMA FreshProcess ==
  Fresh => ReaderInv /\ StopInv /\ SettingsInv /\ WaitingInv /\ AsWritten
<1> SUFFICES ASSUME Fresh PROVE ReaderInv /\ StopInv /\ SettingsInv /\ WaitingInv /\ AsWritten
  OBVIOUS
<1>1. /\ script \in Scripts /\ settings = [queryname |-> NoName, resultsize |-> NoSize]
      /\ frames = <<Frame(Main)>> /\ stop = FALSE /\ scriptPc = "read" /\ ran = <<>>
  BY DEF Fresh
<1>2. /\ frames = <<frames[1]>> /\ Len(frames) = 1 /\ Top = frames[1] /\ frames[1] = Frame(Main)
  BY <1>1, OneFrame DEF Top
<1>3. /\ frames[1].line = 1 /\ frames[1].statements = <<>> /\ frames[1].file = Main
      /\ IsFrame(frames[1])
  <2>1. Main \in DOMAIN script /\ Len(script[Main]) \in Nat
    BY <1>1, FilesAreSequences
  <2> QED
    BY <1>2, <2>1, EmptyIsSequence DEF Frame, IsFrame
<1>4. ~Handling /\ ~Stopping
  BY <1>1 DEF Handling, Stopping
<1>5. ReaderInv
  BY <1>1, <1>2, <1>3, <1>4, EmptyIsSequence DEF ReaderInv, FramesInv
<1>6. PICK c : c = Cursor
  OBVIOUS
<1>7. c = <<1, 0>>
  BY <1>2, <1>3, <1>4, <1>6 DEF Cursor
<1>8. /\ \A p \in Places : ~Before(p, c)
      /\ TakenBefore(c) = {}
      /\ \A kind, default : Said(kind, c, default) = default
  BY <1>1, <1>7, NothingBefore
<1>9. StopInv
  BY <1>4, <1>6, <1>8 DEF StopInv, Before
<1>10. SettingsInv
  BY <1>1, <1>4, <1>6, <1>8 DEF SettingsInv
<1>11. WaitingInv
  <2>1. IsFiniteSet({}) /\ Cardinality({}) = 0
    BY FS_EmptySet
  <2>2. Top.statements = <<>> /\ DOMAIN Top.statements = {} /\ Len(ran) = 0 /\ Len(Top.statements) = 0
    BY <1>1, <1>2, <1>3
  <2> QED
    BY <1>6, <1>8, <2>1, <2>2 DEF WaitingInv
<1>12. AsWritten
  BY <1>1 DEF AsWritten
<1> QED
  BY <1>5, <1>9, <1>10, <1>11, <1>12

LEMMA ScriptInvInit == ScriptInit => ScriptInv
<1> SUFFICES ASSUME ScriptInit PROVE ScriptInv
  OBVIOUS
<1>1. Fresh /\ scriptPc = "read" /\ plans = [k \in {} |-> NoPlan]
  BY DEF ScriptInit, Fresh
<1>2. PlansInv
  BY <1>1 DEF PlansInv
<1> QED
  BY <1>1, <1>2, FreshProcess DEF ScriptInv

LEMMA StartAgainStep ==
  ASSUME ScriptInv, StartAgain PROVE ScriptInv'
<1>1. script \in Scripts
  BY DEF ScriptInv, ReaderInv
<1>2. Fresh' /\ UNCHANGED <<script, plans>> /\ scriptPc' = "read"
  BY <1>1 DEF StartAgain, Begin, Fresh
<1>3. (Fresh => ReaderInv /\ StopInv /\ SettingsInv /\ WaitingInv /\ AsWritten)'
  BY FreshProcess, PTL
<1>4. PlansInv'
  BY <1>2, PlansKept DEF ScriptInv
<1> QED
  BY <1>2, <1>3, <1>4 DEF ScriptInv

\* A command is handled, or a file ends.
LEMMA ParsedStep ==
  ASSUME ScriptInv, Parsed PROVE ScriptInv'
<1>1. /\ scriptPc = "parse" /\ ~Top.open /\ Top.statements = <<>> /\ Handling
      /\ UNCHANGED <<script, then, plans, ran>>
  BY DEF Parsed, Handling
<1>2. /\ script \in Scripts /\ stop \in BOOLEAN /\ IsSequence(ran) /\ FramesInv
      /\ settings = [queryname |-> settings.queryname, resultsize |-> settings.resultsize]
      /\ then.kind = "include" =>
            Len(frames) = 1 /\ frames[1].line > 1 /\ script[Main][frames[1].line - 1] = then
      /\ then.kind = "eof" /\ ~stop => Top.line = Len(script[Top.file]) + 1
  BY <1>1 DEF ScriptInv, ReaderInv
<1>3. /\ stop' = (stop \/ then.kind = "quit")
      /\ settings' = IF then.kind = "set"
                     THEN [queryname |-> then.of, resultsize |-> settings.resultsize] ELSE settings
  <2>1. settings' = IF then.kind = "set" THEN [settings EXCEPT !.queryname = then.of] ELSE settings
    BY DEF Parsed
  <2>2. [settings EXCEPT !.queryname = then.of] =
        [queryname |-> then.of, resultsize |-> settings.resultsize]
    BY <1>2
  <2> QED
    BY <2>1, <2>2 DEF Parsed
<1>4. /\ stop' \in BOOLEAN /\ script' \in Scripts /\ IsSequence(ran')
      /\ settings' = [queryname |-> settings'.queryname, resultsize |-> settings'.resultsize]
  BY <1>1, <1>2, <1>3
<1>5. AsWritten' /\ PlansInv'
  <2>1. scriptPc' # "execute"
    BY DEF Parsed
  <2> QED
    BY <1>1, <2>1, RanKept, PlansKept DEF ScriptInv
\* All that is left to show is where the reader stands.
<1>6. ASSUME scriptPc' = "read", FramesInv', Top'.statements = <<>>,
             NEW c, c = Cursor, NEW d, d = Cursor',
             Stopping => \A p \in Read : Before(p, d),
             ~Stopping => \A p \in Places : Before(p, c) <=> Before(p, d)
      PROVE  ScriptInv'
  <2>1. ReaderInv'
    BY <1>4, <1>6 DEF ReaderInv, IsSequence, Handling
  <2>2. Stopping' <=> Stopping
    BY <1>1, <1>3, <1>6 DEF Stopping, Handling
  <2>3. ~stop' => /\ ~stop /\ settings'.resultsize = settings.resultsize
                  /\ (IF Handling' /\ then'.kind = "set" THEN then'.of ELSE settings'.queryname) =
                     (IF Handling /\ then.kind = "set" THEN then.of ELSE settings.queryname)
    <3>1. ~Handling'
      BY <1>6 DEF Handling
    <3> QED
      BY <1>1, <1>2, <1>3, <3>1
  <2>4. StopInv' /\ SettingsInv' /\ SamePlace(c, d)
    BY <1>1, <1>6, <2>2, <2>3, KeepsPlace
  <2>5. WaitingInv'
    BY <1>1, <1>6, <2>4, KeepsWaiting
  <2> QED
    BY <1>5, <2>1, <2>4, <2>5 DEF ScriptInv
<1>7. PICK c : c = Cursor
  OBVIOUS
<1>8. PICK d : d = Cursor'
  OBVIOUS
<1>9. Stopping => \A p \in Read : Before(p, c)
  BY <1>1, <1>7 DEF ScriptInv, StopInv, Before
<1>10. Read \subseteq Places /\ \A p \in Places : p = <<p[1], p[2]>> /\ p[1] \in Nat /\ p[2] \in Nat
  BY <1>2, PlaceIsPair DEF Read
<1>11. CASE then.kind = "include"
  <2> DEFINE f == Frame(then.of)
             m == frames[1]
  <2>1. /\ m.line > 1 /\ script[Main][m.line - 1] = then /\ m.line - 1 \in DOMAIN script[Main]
        /\ frames = <<m>> /\ IsFrame(m) /\ m.file = Main /\ Len(frames) = 1 /\ Top = m
    <3>1. m.line > 1 /\ script[Main][m.line - 1] = then /\ Len(frames) = 1
      BY <1>2, <1>11
    <3>2. frames = <<m>> /\ IsFrame(m) /\ m.file = Main /\ Top = m
      BY <1>2, <3>1, FramesHave
    <3> QED
      BY <1>2, <3>1, <3>2, FilesAreSequences DEF IsFrame
  <2>2. /\ f.file = then.of /\ f.line = 1 /\ f.statements = <<>> /\ IsFrame(f)
    <3>1. then.of \in DOMAIN script /\ Len(script[then.of]) \in Nat
      BY <1>2, <1>11, <2>1, FilesAreSequences
    <3> QED
      BY <3>1, EmptyIsSequence DEF Frame, IsFrame
  <2> HIDE DEF f
  <2>3. frames' = Append(frames, f)
    BY <1>11 DEF Parsed, f
  <2> HIDE DEF m
  <2>4. frames' = <<m, f>>
    BY <2>1, <2>3, TwoFrames
  <2>5. frames'[1] = m /\ frames'[2] = f /\ Len(frames') = 2 /\ Top' = f /\ frames' # <<>>
    BY <2>4, TwoFrames DEF Top
  <2>6. FramesInv'
    <3>1. m.statements = <<>> /\ ~m.open
      BY <1>1, <2>1
    <3>2. /\ frames' = <<frames'[1], frames'[2]>> /\ IsFrame(frames'[1]) /\ IsFrame(frames'[2])
          /\ frames'[1].file = Main /\ frames'[1].line > 1
          /\ frames'[1].statements = <<>> /\ ~frames'[1].open
          /\ script[Main][frames'[1].line - 1].kind = "include"
          /\ frames'[2].file = script[Main][frames'[1].line - 1].of
      BY <1>11, <2>1, <2>2, <2>4, <2>5, <3>1
    <3> QED
      BY <1>1, <3>2 DEF FramesInv, IsFrame
  <2>7. c = <<m.line - 1, 1>>
    BY <1>1, <1>7, <1>11, <2>1 DEF Cursor, m
  <2>8. d = <<m.line - 1, 1>>
    BY <1>8, <2>2, <2>5 DEF Cursor
  <2>9. scriptPc' = "read"
    BY <2>5 DEF Parsed
  <2>10. \A p \in Places : Before(p, c) <=> Before(p, d)
    BY <2>7, <2>8
  <2>11. Stopping => \A p \in Read : Before(p, d)
    BY <1>9, <2>7, <2>8
  <2> QED
    BY <1>6, <1>7, <1>8, <2>2, <2>5, <2>6, <2>9, <2>10, <2>11
<1>12. CASE then.kind = "eof" /\ Len(frames) = 1
  <2>1. frames' = <<>>
    <3>1. frames = <<frames[1]>>
      BY <1>2, <1>12, FramesHave
    <3>2. frames' = Front(frames)
      BY <1>12 DEF Parsed
    <3> QED
      BY <3>1, <3>2, OneFrame
  <2>2. scriptPc' = "over"
    BY <2>1 DEF Parsed
  <2>3. ReaderInv' /\ StopInv' /\ SettingsInv' /\ WaitingInv'
    BY <1>4, <2>2 DEF ReaderInv, StopInv, SettingsInv, WaitingInv, IsSequence
  <2> QED
    BY <1>5, <2>3 DEF ScriptInv
<1>13. CASE then.kind = "eof" /\ Len(frames) = 2
  <2> DEFINE m == frames[1]
  <2>1. /\ frames = <<m, Top>> /\ IsFrame(m) /\ m.file = Main /\ m.line > 1 /\ IsFrame(Top)
        /\ m.statements = <<>> /\ ~m.open /\ Top = frames[2]
        /\ script[Main][m.line - 1].kind = "include"
        /\ Top.file = script[Main][m.line - 1].of
    BY <1>2, <1>13, FramesHave
  <2>2. m.line \in Nat /\ Top.line \in Nat
    <3>1. Top.file \in DOMAIN script /\ m.file \in DOMAIN script
      BY <2>1 DEF IsFrame
    <3> QED
      BY <1>2, <2>1, <3>1, FilesAreSequences DEF IsFrame
  <2>3. c = <<m.line - 1, Top.line>>
    BY <1>7, <1>13, <2>1 DEF Cursor
  <2> HIDE DEF m
  <2>4. frames' = <<m>>
    <3>1. frames' = Front(frames)
      BY <1>13 DEF Parsed
    <3> QED
      BY <2>1, <3>1, TwoFrames
  <2>5. frames'[1] = m /\ Len(frames') = 1 /\ Top' = m /\ frames' # <<>> /\ scriptPc' = "read"
    <3>1. frames'[1] = m /\ Len(frames') = 1 /\ frames' # <<>>
      BY <2>4
    <3>2. Top' = m
      BY <2>4, OneFrame DEF Top
    <3> QED
      BY <3>1, <3>2 DEF Parsed
  <2>6. FramesInv'
    BY <1>1, <2>1, <2>4, <2>5 DEF FramesInv, IsFrame
  <2>7. d = <<m.line, 0>>
    <3>1. ~Handling'
      BY <2>5 DEF Handling
    <3> QED
      BY <1>8, <2>5, <3>1 DEF Cursor
  <2>8. \A p \in Places : Before(p, c) => Before(p, d)
    BY <1>10, <2>2, <2>3, <2>7 DEF Before
  <2>9. ASSUME ~Stopping, NEW p \in Places, Before(p, d) PROVE Before(p, c)
    <3>1. p = <<p[1], p[2]>> /\ p[1] \in Nat /\ p[2] \in Nat
      BY <1>10
    <3>2. p[1] < m.line
      BY <2>7, <2>9, <3>1 DEF Before
    <3>3. CASE p[1] = m.line - 1
      <4>1. p[2] \in {0} \union DOMAIN Included(m.line - 1)
        BY <1>2, <3>1, <3>3, PlaceIsPair
      <4>2. Included(m.line - 1) = script[Top.file]
        BY <2>1 DEF Included
      <4>3. Top.file \in DOMAIN script /\ Top.line = Len(script[Top.file]) + 1
        BY <1>2, <1>13, <2>1, <2>9 DEF IsFrame, Stopping
      <4>4. Len(script[Top.file]) \in Nat /\ DOMAIN script[Top.file] = 1 .. Len(script[Top.file])
        BY <1>2, <4>3, FilesAreSequences
      <4>5. p[2] < Top.line
        BY <4>1, <4>2, <4>3, <4>4
      <4> QED
        BY <2>3, <3>3, <4>5 DEF Before
    <3>4. CASE p[1] # m.line - 1
      BY <2>2, <2>3, <3>1, <3>2, <3>4 DEF Before
    <3> QED
      BY <3>3, <3>4
  <2>10. Stopping => \A p \in Read : Before(p, d)
    BY <1>9, <1>10, <2>8
  <2>11. Top'.statements = <<>>
    BY <2>1, <2>5
  <2> QED
    BY <1>6, <1>7, <1>8, <2>5, <2>6, <2>8, <2>9, <2>10, <2>11
<1>14. CASE then.kind \notin {"include", "eof"}
  <2>1. frames' = frames
    BY <1>14 DEF Parsed
  <2>2. frames # <<>> /\ scriptPc' = "read"
    <3>1. frames # <<>>
      BY <1>2, FramesHave
    <3> QED
      BY <2>1, <3>1 DEF Parsed
  <2>3. FramesInv' /\ Top'.statements = <<>>
    BY <1>1, <1>2, <2>1 DEF FramesInv, IsFrame, Top
  <2>4. c = d
    <3>1. ~Handling' /\ then.kind # "include"
      BY <1>14, <2>2 DEF Handling
    <3> QED
      BY <1>7, <1>8, <2>1, <3>1 DEF Cursor
  <2> QED
    BY <1>6, <1>7, <1>8, <1>9, <2>2, <2>3, <2>4
<1> QED
  BY <1>2, <1>11, <1>12, <1>13, <1>14, FramesHave

LEMMA ScriptInvStep == ScriptInv /\ [ScriptNext]_scriptVars => ScriptInv'
<1> SUFFICES ASSUME ScriptInv, [ScriptNext]_scriptVars PROVE ScriptInv'
  OBVIOUS
<1>1. CASE ReadLine
  <2>1. UNCHANGED <<script, plans, ran>> /\ scriptPc' # "execute"
    <3>1. scriptPc = "read" /\ UNCHANGED <<script, plans, ran>>
      BY <1>1 DEF ReadLine
    <3>2. scriptPc' \in {"parse", "read"}
      <4> DEFINE line == script[Top.file][Top.line]
      <4>1. Top.line <= Len(script[Top.file]) /\ TakeLine(line)
        BY <1>1 DEF ReadLine, HandleLine
      <4>2. line.kind \in LineKinds
        BY <3>1, <4>1, PlaceOfLine DEF ScriptInv
      <4>3. FramesInv /\ script \in Scripts
            /\ settings = [queryname |-> settings.queryname, resultsize |-> settings.resultsize]
        BY <3>1 DEF ScriptInv, ReaderInv
      <4> HIDE DEF line
      <4>4. scriptPc' = IF Asks(line) THEN "parse" ELSE "read"
        BY <3>1, <4>1, <4>2, <4>3, TakeLineDoes
      <4> QED
        BY <4>4
    <3> QED
      BY <3>1, <3>2
  <2> QED
    BY <1>1, <2>1, ReadLineKeeps, RanKept, PlansKept DEF ScriptInv
<1>2. CASE ReadEnd \/ RunStatement \/ LookupCachedPlan \/ GeneratePlan
  BY <1>2, QuietStep
<1>3. CASE ParseError
  BY <1>3, ParseErrorStep
<1>4. CASE Parsed
  BY <1>4, ParsedStep
<1>5. CASE SkipQuery \/ ExecutePlan
  <2>1. scriptPc \in {"optimize", "execute"} /\ (Done(NoPlan) \/ Done(plan))
    BY <1>5 DEF SkipQuery, ExecutePlan
  <2> QED
    BY <2>1, DoneStep
<1>6. CASE StartAgain
  BY <1>6, StartAgainStep
<1>7. CASE UNCHANGED scriptVars
  <2>1. /\ UNCHANGED <<script, process, settings, frames, stop, scriptPc, then, plan, plans, ran>>
    BY <1>7 DEF scriptVars, reader
  <2>2. Top' = Top /\ Handling' = Handling /\ Cursor' = Cursor
    BY <2>1 DEF Top, Handling, Cursor
  <2>3. ReaderInv'
    BY <2>1, <2>2 DEF ScriptInv, ReaderInv, FramesInv, IsFrame, IsSequence
  <2>4. CASE scriptPc = "over"
    <3>1. StopInv' /\ SettingsInv' /\ WaitingInv'
      BY <2>1, <2>4 DEF StopInv, SettingsInv, WaitingInv
    <3> QED
      BY <2>1, <2>3, <2>4, <3>1, RanKept, PlansKept DEF ScriptInv
  <2>5. CASE scriptPc # "over"
    <3>1. PICK c : c = Cursor
      OBVIOUS
    <3>2. c = Cursor'
      BY <2>1, <3>1 DEF Cursor, Handling
    <3>3. Stopping => \A p \in Read : Before(p, c)
      BY <2>5, <3>1 DEF ScriptInv, StopInv, Before
    <3>4. (Stopping' <=> Stopping) /\ (Handling' <=> Handling)
      BY <2>1 DEF Stopping, Handling
    <3>5. StopInv' /\ SettingsInv' /\ SamePlace(c, c)
      BY <2>1, <2>5, <3>1, <3>2, <3>3, <3>4, KeepsPlace
    <3>6. WaitingInv'
      BY <2>1, <2>2, <2>5, <3>1, <3>2, <3>4, <3>5, KeepsWaiting
    <3>7. PlansInv'
      BY <2>1, SameText DEF ScriptInv, PlansInv, IsPlan
    <3> QED
      BY <2>1, <2>3, <3>5, <3>6, <3>7, RanKept DEF ScriptInv
  <2> QED
    BY <2>4, <2>5
<1> QED
  BY <1>1, <1>2, <1>3, <1>4, <1>5, <1>6, <1>7 DEF ScriptNext, Statement

LEMMA ScriptsInStep == ScriptSpec => []ScriptInv
  BY ScriptInvInit, ScriptInvStep, PTL DEF ScriptSpec

\* Queries run in the order of the text, with the name and the size that it gives them: whatever
\* the files, and however often a process ends.
THEOREM QueriesRunAsWritten == ScriptSpec => []AsWritten
<1>1. ScriptInv => AsWritten
  BY DEF ScriptInv
<1> QED
  BY <1>1, ScriptsInStep, PTL

\* A query that is run has the name that its plan was stored under.
LEMMA PlanOfQueryStep ==
  ScriptInv /\ PlanOfQuery /\ [ScriptNext]_scriptVars => PlanOfQuery'
<1> SUFFICES ASSUME ScriptInv, PlanOfQuery, [ScriptNext]_scriptVars PROVE PlanOfQuery'
  OBVIOUS
<1>1. CASE UNCHANGED <<script, process, ran>>
  BY <1>1, SameText DEF PlanOfQuery
<1>2. CASE StartAgain
  <2>1. ran' = <<>>
    BY <1>2 DEF StartAgain, Begin
  <2> QED
    BY <2>1 DEF PlanOfQuery
<1>3. CASE SkipQuery \/ ExecutePlan
  <2> DEFINE s == Top.statements
  <2>1. PICK p : Done(p) /\ (p = NoPlan \/ (p = plan /\ scriptPc = "execute"))
    BY <1>3 DEF SkipQuery, ExecutePlan
  <2>2. scriptPc \in {"optimize", "execute"} /\ UNCHANGED <<script, process>>
    BY <1>3 DEF SkipQuery, ExecutePlan, Done
  <2> DEFINE entry == [query |-> Head(s), queryname |-> settings.queryname,
                       resultsize |-> settings.resultsize, plan |-> p]
  <2>3. ran' = Append(ran, entry) /\ entry.plan = p /\ entry.query = Head(s)
    BY <2>1 DEF Done
  <2> HIDE DEF entry
  <2>4. FramesInv /\ s # <<>> /\ IsSequence(ran)
    BY <2>2 DEF ScriptInv, ReaderInv
  <2>5. Head(s) = s[1] /\ 1 \in DOMAIN s
    <3>1. IsSequence(s)
      BY <2>4, FramesHave DEF IsFrame
    <3> QED
      BY <2>4, <3>1, TailIsSequence
  <2>6. ASSUME p # NoPlan, NamesUnique
        PROVE  p = [query |-> [text |-> Head(s), schema |-> process.schema],
                    algorithm |-> process.algorithm]
    <3>1. PICK q \in Queries : s[1] = LineAt(q).of /\ settings.queryname = Said("set", q, NoName)
      <4>1. \A j \in DOMAIN s : \E q \in TakenBefore(Cursor) :
              IsQueryAt(q, s[j], settings.queryname, settings.resultsize)
        BY <2>2 DEF ScriptInv, WaitingInv
      <4> QED
        BY <2>5, <4>1 DEF TakenBefore, IsQueryAt
    <3>2. IsPlan(p, settings.queryname, process)
      BY <2>1, <2>6 DEF ScriptInv, PlansInv
    <3>3. PICK r \in Queries :
            /\ Said("set", r, NoName) = settings.queryname
            /\ p = [query |-> [text |-> LineAt(r).of, schema |-> process.schema],
                    algorithm |-> process.algorithm]
      BY <3>2 DEF IsPlan
    <3>4. LineAt(r).of = LineAt(q).of
      BY <2>6, <3>1, <3>3 DEF NamesUnique
    <3> QED
      BY <2>5, <3>1, <3>3, <3>4
  <2>7. /\ \A i \in 1 .. Len(ran) : ran'[i] = ran[i]
        /\ ran'[Len(ran) + 1] = entry
        /\ DOMAIN ran' = 1 .. Len(ran) + 1 /\ DOMAIN ran = 1 .. Len(ran) /\ Len(ran) \in Nat
    <3>1. /\ IsSequence(ran') /\ Len(ran') = Len(ran) + 1
          /\ \A i \in 1 .. Len(ran) : ran'[i] = ran[i]
          /\ ran'[Len(ran) + 1] = entry
      BY <2>3, <2>4, AppendIsSequence
    <3> QED
      BY <2>4, <3>1, SequenceLength
  <2>8. ASSUME NEW i \in DOMAIN ran', ran'[i].plan # NoPlan, NamesUnique
        PROVE  ran'[i].plan = [query |-> [text |-> ran'[i].query, schema |-> process.schema],
                               algorithm |-> process.algorithm]
    <3>1. CASE i \in DOMAIN ran
      BY <2>7, <2>8, <3>1 DEF PlanOfQuery
    <3>2. CASE i = Len(ran) + 1
      BY <2>3, <2>6, <2>7, <2>8, <3>2
    <3> QED
      BY <2>7, <3>1, <3>2
  <2> QED
    BY <2>2, <2>8, SameText DEF PlanOfQuery
<1>4. CASE ReadLine \/ ReadEnd \/ ParseError \/ Parsed \/ RunStatement \/ LookupCachedPlan
           \/ GeneratePlan \/ UNCHANGED scriptVars
  <2>1. UNCHANGED <<script, process, ran>>
    BY <1>4 DEF ReadLine, ReadEnd, ParseError, Parsed, RunStatement, LookupCachedPlan, GeneratePlan,
                scriptVars, reader
  <2> QED
    BY <1>1, <2>1
<1> QED
  BY <1>2, <1>3, <1>4 DEF ScriptNext, Statement

\* A query runs with a plan of its own, made for its data and by its algorithm, by whichever
\* process, if no name is given to two queries.
THEOREM PlansAreOfQueries == ScriptSpec => []PlanOfQuery
<1>1. ScriptInit => PlanOfQuery
  BY DEF ScriptInit, PlanOfQuery
<1> QED
  BY <1>1, PlanOfQueryStep, ScriptsInStep, PTL DEF ScriptSpec
=============================================================================
