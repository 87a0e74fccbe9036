---------------------------- MODULE EstimateFile ----------------------------
(***************************************************************************)
(* factDB/opt/oracle: the file of estimates.  Without SQLite the oracle    *)
(* reads a file when it is constructed and, whenever it has learnt a size, *)
(* writes it anew with all that it knows.  Before that it copies the file  *)
(* to one of a ring of backups.  A query may have two oracles: that of its *)
(* visitor lives while that of the optimizer comes and goes.               *)
(*                                                                         *)
(* The estimates are the numbers of their signatures in the order of the   *)
(* file; a file is the set of its lines.  Every line is flushed, so that a *)
(* process that ends leaves a file with the first lines.                   *)
(***************************************************************************)
EXTENDS Integers, FiniteSets, FiniteSetsExt, Functions

CONSTANTS
  Oracles,    \* CardinalityOracleCSV objects
  Estimates,  \* signatures, in the order of the file
  Absent,     \* the content of a file that does not exist
  Backups,    \* the length of the ring; ten in the code
  Autosave,   \* the values that opt.oracle.autosave may have
  FirstFile,  \* what the file holds at first
  MaxEnds     \* bound: the processes that end

ASSUME EstimatesAssumption == Estimates \subseteq Nat
ASSUME AbsentAssumption == Absent \notin SUBSET Estimates
ASSUME BackupsAssumption == Backups \in Nat \ {0}
ASSUME AutosaveAssumption == Autosave \subseteq BOOLEAN
ASSUME FirstFileAssumption == FirstFile \subseteq (SUBSET Estimates) \cup {Absent}

VARIABLES
  file,        \* estimates.csv
  backups,     \* estimates.csv.backup<n>
  backupId,    \* oracleFileBackupId, a setting of the process
  constructed, \* the oracles that exist
  known,       \* per oracle: signature2estimate
  changed,     \* per oracle: whether changedEstimates is not empty
  filePc,      \* "run", or where store() is: "backup", "copy", "truncate", "write"; "terminated"
  storing,     \* the oracle in store(), and whether it is destroyed after it
  ends,        \* how many processes ended
  saved,       \* history: what the file held when the last store began
  found,       \* history: what it held when the process started
  overlap      \* history: whether two oracles of the process lived at the same time

memory == <<backupId, constructed, known, changed>>
process == <<ends, found, overlap>>
fileVars == <<file, backups, memory, filePc, storing, saved, process>>

Lines(content) == IF content = Absent THEN {} ELSE content

FileInit ==
  /\ file \in FirstFile
  /\ backups = [n \in 0 .. Backups - 1 |-> Absent]
  /\ backupId = 0
  /\ constructed = {}
  /\ known = [o \in Oracles |-> {}]
  /\ changed = [o \in Oracles |-> FALSE]
  /\ filePc = "run"
  /\ storing \in [oracle : Oracles, destroy : {FALSE}]
  /\ ends = 0
  /\ saved = Lines(file)
  /\ found = Lines(file)
  /\ overlap = FALSE

-----------------------------------------------------------------------------
ReadFile == Lines(file)

Construct(o) ==
  /\ filePc = "run"
  /\ o \notin constructed
  /\ constructed' = constructed \cup {o}
  /\ known' = [known EXCEPT ![o] = ReadFile]
  /\ changed' = [changed EXCEPT ![o] = FALSE]
  /\ overlap' = (overlap \/ constructed # {})
  /\ UNCHANGED <<file, backups, backupId, filePc, storing, saved, ends, found>>

\* The first step of store(), left at once when nothing has changed.
BeginStore(o, hasChanged, destroy) ==
  /\ storing' = [oracle |-> o, destroy |-> destroy /\ hasChanged]
  /\ filePc' = IF hasChanged THEN "backup" ELSE "run"

\* calcEstimate, of a join that is not known: the server was asked.
Estimate(o, e) ==
  /\ filePc = "run"
  /\ o \in constructed
  /\ e \notin known[o]
  /\ known' = [known EXCEPT ![o] = @ \cup {e}]
  /\ changed' = [changed EXCEPT ![o] = TRUE]
  /\ \E autosave \in Autosave : BeginStore(o, autosave, FALSE)
  /\ UNCHANGED <<file, backups, backupId, constructed, saved, process>>

\* The optimizer stores when it has its plan.
Reordered(o) ==
  /\ filePc = "run"
  /\ o \in constructed
  /\ BeginStore(o, changed[o], FALSE)
  /\ UNCHANGED <<file, backups, memory, saved, process>>

\* The destructor of a changed oracle stores first.
NeverStores(o) == FALSE
MustStore(o) == changed[o]

Destroy(o) ==
  /\ filePc = "run"
  /\ o \in constructed
  /\ constructed' = IF MustStore(o) THEN constructed ELSE constructed \ {o}
  /\ BeginStore(o, MustStore(o), TRUE)
  /\ UNCHANGED <<file, backups, backupId, known, changed, saved, process>>

-----------------------------------------------------------------------------
(* store().                                                                *)

\* createBackup: there is no copy of a file that does not exist, and what
\* copy throws leaves a destructor in the end.
CreateBackup ==
  /\ filePc = "backup"
  /\ IF file = Absent
     THEN /\ filePc' = "terminated"
          /\ UNCHANGED <<backups, backupId, saved>>
     ELSE /\ backups' = [backups EXCEPT ![backupId % Backups] = {}]
          /\ backupId' = backupId + 1
          /\ saved' = file
          /\ filePc' = "copy"
  /\ UNCHANGED <<file, constructed, known, changed, storing, process>>

CopyNothing == UNCHANGED backups
CopyFile == backups' = [backups EXCEPT ![(backupId - 1) % Backups] = file]
Copy ==
  /\ filePc = "copy"
  /\ CopyFile
  /\ filePc' = "truncate"
  /\ UNCHANGED <<file, memory, storing, saved, process>>

Truncate ==
  /\ filePc = "truncate"
  /\ file' = {}
  /\ filePc' = "write"
  /\ UNCHANGED <<backups, memory, storing, saved, process>>

\* One line after the other, those of all that the oracle knows.
WriteLine ==
  LET left == known[storing.oracle] \ file
  IN  /\ filePc = "write"
      /\ left # {}
      /\ file' = file \cup {Min(left)}
      /\ UNCHANGED <<backups, memory, filePc, storing, saved, process>>

Stored ==
  /\ filePc = "write"
  /\ known[storing.oracle] \subseteq file
  /\ changed' = [changed EXCEPT ![storing.oracle] = FALSE]
  /\ IF storing.destroy THEN constructed' = constructed \ {storing.oracle} ELSE UNCHANGED constructed
  /\ storing' = [storing EXCEPT !.destroy = FALSE]
  /\ filePc' = "run"
  /\ UNCHANGED <<file, backups, backupId, known, saved, process>>

-----------------------------------------------------------------------------
\* The process ends and the next one starts.
End ==
  /\ ends < MaxEnds
  /\ filePc # "terminated"
  /\ ends' = ends + 1
  /\ found' = Lines(file)
  /\ overlap' = FALSE
  /\ backupId' = 0
  /\ constructed' = {}
  /\ known' = [o \in Oracles |-> {}]
  /\ changed' = [o \in Oracles |-> FALSE]
  /\ storing' = [storing EXCEPT !.destroy = FALSE]
  /\ filePc' = "run"
  /\ UNCHANGED <<file, backups, saved>>

FileNext ==
  \/ \E o \in Oracles : Construct(o) \/ Reordered(o) \/ Destroy(o)
  \/ \E o \in Oracles, e \in Estimates : Estimate(o, e)
  \/ CreateBackup \/ Copy \/ Truncate \/ WriteLine \/ Stored \/ End

FileSpec == FileInit /\ [][FileNext]_fileVars

-----------------------------------------------------------------------------
AllFiles == Lines(file) \cup UNION {Lines(backups[n]) : n \in DOMAIN backups}

\* What the file held when a store began is in the file or in a backup, at any
\* step of that store and, if the process ends in it, until the next store.
Recoverable == saved \subseteq AllFiles

\* Whatever oracles come, go and overlap, what the file held when the process started
\* is in it whenever no store is under way.
FoundKept == [](filePc = "run" => found \subseteq Lines(file))

\* An oracle that is gone in an orderly way has left all it knew in the file: if it had
\* something to store at the end, always; if autosave or the optimizer had stored it
\* before, as long as no other oracle of the process overlapped, which could write what
\* it knows over it.
NothingForgotten ==
  [][\A o \in Oracles :
       /\ o \in constructed /\ o \notin constructed' /\ ends' = ends
       /\ changed[o] \/ ~overlap
       => known[o] \subseteq file']_fileVars

\* A store that is done has dropped nothing from the file, as long as no oracles overlapped.
StoreKeeps ==
  [][filePc = "write" /\ filePc' = "run" /\ ends' = ends /\ ~overlap => saved \subseteq file']_fileVars

\* No orderly end of an oracle and no store loses what the process found or, without
\* two oracles at the same time, what it learnt.
EstimatesKept == FoundKept /\ NothingForgotten /\ StoreKeeps
=============================================================================
