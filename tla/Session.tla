------------------------------- MODULE Session ------------------------------
(***************************************************************************)
(* factDB/Database and the statements: relations, the files that they are  *)
(* loaded from, and when they are loaded and unloaded.  COPY only notes    *)
(* the file; a query loads the relations that it needs, executes, and      *)
(* unloads them again, unless it was given up in between.  The oracle of   *)
(* the optimizer loads relations, too, to know their sizes.  A relation is *)
(* read from the file ".tbl" next to the text file if there is one; the    *)
(* tool genTblFiles, another process, writes those.                        *)
(*                                                                         *)
(* The text file has versions, each with rows of its own.  One relation is *)
(* loaded in one step.  CREATE TABLE generates code; a process knows the   *)
(* tables that its program was built with.  Queries are over relations     *)
(* that a COPY named a file for, which Database::loadRelation asserts.     *)
(***************************************************************************)
EXTENDS Integers, Sequences, FiniteSets, SequencesExt

CONSTANTS
  Names,      \* names of relations
  FirstNames, \* those of the program at first, in the order of their ids
  Files,      \* text files
  NoFile,     \* the empty path; also the content of a file that does not exist
  NumRows,    \* rows of a version
  MaxVersion, \* bound: versions of a text file
  MaxCopies,  \* bound: COPY statements of a process
  MaxRuns,    \* bound: queries of a process
  MaxStarts,  \* bound: processes
  MaxToolRuns,\* bound: runs of genTblFiles, per file
  UseAtOnce   \* whether relations are used by the process that creates them

ASSUME NamesAssumption == FirstNames \in Seq(Names)
ASSUME FilesAssumption == NoFile \notin Files
ASSUME RowsAssumption == NumRows \in Nat /\ MaxVersion \in Nat \ {0}
ASSUME UseAtOnceAssumption == UseAtOnce \in BOOLEAN

VARIABLES
  csv,       \* per file: the version of the text, 0 if it does not exist
  tbl,       \* per file: the rows of its ".tbl", or NoFile
  tool,      \* genTblFiles: the file it writes, and the rows it holds
  built,     \* gen/tables: the names of the relations of the next program
  schemas,   \* the names of the relations by their id
  tables,    \* the tables by their id: whether loaded, and the rows
  filepaths, \* the text file by the id, or NoFile
  sessionPc, \* "idle", "load", "optimize", "execute", "unload", or "over"
  current,   \* the query: its kind and its relations
  toLoad,    \* the relations that it did not load yet
  fault,     \* whether an assertion failed or an id is behind the tables
  since,     \* history, by the id: what the file held since the last COPY
  used       \* bounds: COPY statements, queries, processes, runs of the tool

textFiles == <<csv, tbl, tool, built>>
database == <<schemas, tables, filepaths>>
progress == <<sessionPc, current, toLoad>>
sessionVars == <<textFiles, database, progress, fault, since, used>>

\* The rows of a version, and those behind the first m up to the n-th.
Between(f, version, m, n) == [k \in 1 .. n - m |-> <<f, version, m + k>>]
Rows(f, version) == Between(f, version, 0, NumRows)

ASSUME NoFileAssumption ==
  \A f \in Files, version \in 1 .. MaxVersion, n \in 0 .. NumRows : NoFile # Between(f, version, 0, n)

Ids == DOMAIN schemas

EmptyTable == [loaded |-> FALSE, data |-> <<>>]
NoCurrent == [kind |-> "none", relations |-> {}]

SessionInit ==
  /\ csv \in [Files -> {0, 1}]
  /\ tbl = [f \in Files |-> NoFile]
  /\ tool = [at |-> "idle", file |-> NoFile, rows |-> <<>>]
  /\ built = FirstNames
  /\ schemas = FirstNames
  /\ tables = [i \in DOMAIN FirstNames |-> EmptyTable]
  /\ filepaths = [i \in DOMAIN FirstNames |-> NoFile]
  /\ sessionPc = "idle"
  /\ current = NoCurrent
  /\ toLoad = {}
  /\ fault = FALSE
  /\ since = [i \in DOMAIN FirstNames |-> {}]
  /\ used = [copies |-> 0, queries |-> 0, starts |-> 1, tool |-> [f \in Files |-> 0]]

-----------------------------------------------------------------------------
\* The text file is written, or replaced by a new version.
WriteText(f) ==
  /\ csv[f] < MaxVersion
  /\ csv' = [csv EXCEPT ![f] = @ + 1]
  /\ since' = [i \in Ids |-> IF filepaths[i] = f THEN since[i] \union {Rows(f, csv'[f])} ELSE since[i]]
  /\ UNCHANGED <<tbl, tool, built, database, progress, fault, used>>

-----------------------------------------------------------------------------
(***************************************************************************)
(* genTblFiles: loads the relation, from the ".tbl" if there is one, opens *)
(* that for writing, which empties it, and writes the rows.  It may end at *)
(* any step.                                                               *)
(***************************************************************************)
ToolReads(f) ==
  /\ tool.at = "idle" /\ csv[f] # 0 /\ used.tool[f] < MaxToolRuns
  /\ tool' = [at |-> "open", file |-> f, rows |-> IF tbl[f] # NoFile THEN tbl[f] ELSE Rows(f, csv[f])]
  /\ used' = [used EXCEPT !.tool[f] = @ + 1]
  /\ UNCHANGED <<csv, tbl, built, database, progress, fault, since>>

OpenAppends(f) == IF tbl[f] = NoFile THEN <<>> ELSE tbl[f]
Opened(f) == <<>>

ToolOpens ==
  /\ tool.at = "open"
  /\ tbl' = [tbl EXCEPT ![tool.file] = Opened(tool.file)]
  /\ tool' = [tool EXCEPT !.at = "write"]
  /\ UNCHANGED <<csv, built, database, progress, fault, since, used>>

ToolWrites ==
  /\ tool.at = "write" /\ tool.rows # <<>>
  /\ tbl' = [tbl EXCEPT ![tool.file] = Append(@, Head(tool.rows))]
  /\ tool' = [tool EXCEPT !.rows = Tail(@)]
  /\ UNCHANGED <<csv, built, database, progress, fault, since, used>>

ToolEnds ==
  /\ tool.at # "idle"
  /\ tool' = [at |-> "idle", file |-> NoFile, rows |-> <<>>]
  /\ UNCHANGED <<csv, tbl, built, database, progress, fault, since, used>>

-----------------------------------------------------------------------------
\* The generated loadRelation; the rows of the text go behind those that are there.
LoadRelation(t, f) ==
  [loaded |-> TRUE, data |-> IF tbl[f] # NoFile THEN tbl[f] ELSE t.data \o Rows(f, csv[f])]

\* The generated unloadRelation.
UnloadRelation(t) == [loaded |-> FALSE, data |-> <<>>]

\* Database::loadRelation with its assertions and that of the table.
CanLoad(i) == i \in DOMAIN tables /\ filepaths[i] # NoFile /\ ~tables[i].loaded

\* The tables after those of S are loaded, or the fault.
LoadAll(S) ==
  IF \A i \in S : CanLoad(i)
  THEN /\ tables' = [i \in DOMAIN tables |->
                       IF i \in S THEN LoadRelation(tables[i], filepaths[i]) ELSE tables[i]]
       /\ UNCHANGED <<sessionPc, fault>>
  ELSE fault' = TRUE /\ sessionPc' = "over" /\ UNCHANGED tables

-----------------------------------------------------------------------------
CopyKeepsTable(i) == UNCHANGED tables
CopyUnloads(i) == tables' = [tables EXCEPT ![i] = UnloadRelation(@)]

\* A COPY of a file that does not exist throws, and nobody catches it.
Copy(i, f) ==
  /\ sessionPc = "idle" /\ used.copies < MaxCopies
  /\ i \in DOMAIN tables \/ UseAtOnce
  /\ used' = [used EXCEPT !.copies = @ + 1]
  /\ IF csv[f] = 0
     THEN sessionPc' = "over" /\ UNCHANGED <<tables, filepaths, since, fault>>
     ELSE /\ filepaths' = [filepaths EXCEPT ![i] = f]
          /\ since' = [since EXCEPT ![i] = {Rows(f, csv[f])}]
          /\ IF i \in DOMAIN tables
             THEN CopyUnloads(i) /\ UNCHANGED <<sessionPc, fault>>
             ELSE fault' = TRUE /\ sessionPc' = "over" /\ UNCHANGED tables
  /\ UNCHANGED <<textFiles, schemas, current, toLoad>>

\* CREATE TABLE: a schema, a path and code, but no table.
CreateTable(name) ==
  /\ sessionPc = "idle"
  /\ name \in Names \ ToSet(schemas)
  /\ schemas' = Append(schemas, name)
  /\ filepaths' = Append(filepaths, NoFile)
  /\ since' = Append(since, {})
  /\ built' = schemas'
  /\ UNCHANGED <<csv, tbl, tool, tables, progress, fault, used>>

\* DatabaseLoadUtil::loadRequiredRelations, for a relation that is not loaded yet.
Preload(i) ==
  /\ sessionPc = "idle"
  /\ i \in DOMAIN tables /\ filepaths[i] # NoFile /\ ~tables[i].loaded
  /\ LoadAll({i})
  /\ UNCHANGED <<textFiles, schemas, filepaths, current, toLoad, since, used>>

-----------------------------------------------------------------------------
(***************************************************************************)
(* A query.  "interpret" stands for the modes that need tables, "other"    *)
(* for those that do not; "benchmark" and "ssb" for a pregenerated query     *)
(* that the dispatcher runs.                                               *)
(***************************************************************************)
Kinds == {"interpret", "other", "benchmark", "ssb"}
NeedsTables(kind) == kind # "other"
Optimizes(kind) == kind \in {"interpret", "other"}

Start(kind, relations) ==
  /\ sessionPc = "idle" /\ used.queries < MaxRuns
  /\ relations # {}
  /\ \A i \in relations : filepaths[i] # NoFile /\ (i \in DOMAIN tables \/ UseAtOnce)
  /\ current' = [kind |-> kind, relations |-> relations]
  /\ toLoad' = IF NeedsTables(kind) THEN relations ELSE {}
  /\ sessionPc' = "load"
  /\ used' = [used EXCEPT !.queries = @ + 1]
  /\ UNCHANGED <<textFiles, database, fault, since>>

LoadAlways(i) == TRUE
NotLoaded(i) == ~tables[i].loaded

\* RelationLoader::load: a loop in parallel, that is, in any order.
LoadNext(i) ==
  /\ sessionPc = "load" /\ i \in toLoad
  /\ toLoad' = toLoad \ {i}
  /\ IF NotLoaded(i) THEN LoadAll({i}) ELSE UNCHANGED <<tables, sessionPc, fault>>
  /\ UNCHANGED <<textFiles, schemas, filepaths, current, since, used>>

Loaded ==
  /\ sessionPc = "load" /\ toLoad = {}
  /\ sessionPc' = IF Optimizes(current.kind) THEN "optimize" ELSE "execute"
  /\ UNCHANGED <<textFiles, database, current, toLoad, fault, since, used>>

\* There is no cached plan and none shall be made: the statement catches the exception.
GiveUp ==
  /\ sessionPc = "optimize"
  /\ sessionPc' = "idle"
  /\ current' = NoCurrent
  /\ UNCHANGED <<textFiles, database, toLoad, fault, since, used>>

\* With a cached plan the oracle is not asked; else it loads what is not loaded.
Optimize(ask) ==
  /\ sessionPc = "optimize"
  /\ LET S == IF ask THEN {i \in current.relations : NotLoaded(i)} ELSE {}
     IN IF \A i \in S : CanLoad(i)
        THEN /\ tables' = [i \in DOMAIN tables |->
                             IF i \in S THEN LoadRelation(tables[i], filepaths[i]) ELSE tables[i]]
             /\ sessionPc' = "execute" /\ UNCHANGED fault
        ELSE fault' = TRUE /\ sessionPc' = "over" /\ UNCHANGED tables
  /\ UNCHANGED <<textFiles, schemas, filepaths, current, toLoad, since, used>>

Execute ==
  /\ sessionPc = "execute"
  /\ sessionPc' = "unload"
  /\ UNCHANGED <<textFiles, database, current, toLoad, fault, since, used>>

\* RelationLoader::unload: all relations of the query, whoever loaded them.
Unload ==
  /\ sessionPc = "unload"
  /\ tables' = [i \in DOMAIN tables |->
                  IF i \in current.relations /\ current.kind \in {"interpret", "benchmark"}
                  THEN UnloadRelation(tables[i]) ELSE tables[i]]
  /\ sessionPc' = "idle"
  /\ current' = NoCurrent
  /\ UNCHANGED <<textFiles, schemas, filepaths, toLoad, fault, since, used>>

\* The process ends at any step, and the next one runs the program that was built meanwhile.
Restart ==
  /\ used.starts < MaxStarts
  /\ schemas' = built
  /\ tables' = [i \in DOMAIN built |-> EmptyTable]
  /\ filepaths' = [i \in DOMAIN built |-> NoFile]
  /\ since' = [i \in DOMAIN built |-> {}]
  /\ sessionPc' = "idle"
  /\ current' = NoCurrent
  /\ toLoad' = {}
  /\ fault' = FALSE
  /\ used' = [used EXCEPT !.starts = @ + 1, !.copies = 0, !.queries = 0]
  /\ UNCHANGED textFiles

Work == (\E i \in toLoad : LoadNext(i)) \/ Loaded \/ GiveUp \/ (\E ask \in BOOLEAN : Optimize(ask)) \/ Execute \/ Unload

SessionNext ==
  \/ Work
  \/ \E f \in Files : WriteText(f) \/ ToolReads(f) \/ (\E i \in Ids : Copy(i, f))
  \/ ToolOpens \/ ToolWrites \/ ToolEnds
  \/ \E name \in Names : CreateTable(name)
  \/ \E i \in Ids : Preload(i)
  \/ \E kind \in Kinds, S \in SUBSET Ids : Start(kind, S)
  \/ Restart

SessionSpec == SessionInit /\ [][SessionNext]_sessionVars

-----------------------------------------------------------------------------
\* No relation is loaded twice or without a file, and every id that a statement uses has a table.
NoFault == ~fault

\* A query that is executed reads, of each of its relations without a ".tbl", all the rows that
\* the text file had at some time since the COPY: neither rows of an earlier file nor an empty
\* table, though a query before it was given up and left its relations loaded, or the oracle or a
\* caller loaded them; and nothing is loaded twice.
ReadsCopied ==
  /\ NoFault
  /\ sessionPc = "execute" /\ NeedsTables(current.kind) =>
       \A i \in current.relations :
         /\ tables[i].loaded
         /\ tbl[filepaths[i]] = NoFile => tables[i].data \in since[i]

\* A table that is loaded holds rows of one version, in order and each once (all of them or the
\* first ones), and one that is not loaded none, whatever was loaded before, and though the tool
\* writes at the same time or ended in the middle.
OneVersion ==
  \A i \in DOMAIN tables :
    IF tables[i].loaded
    THEN \E f \in Files : \E version \in 1 .. MaxVersion : IsPrefix(tables[i].data, Rows(f, version))
    ELSE tables[i].data = <<>>
=============================================================================
