---------------------------- MODULE OracleProofs ----------------------------
(***************************************************************************)
(* Proofs about opt/oracle and the connector: for any queries and data     *)
(* sets, any number of failures, restarts and ends of processes, any file  *)
(* to begin with and any length of the ring of backups.                    *)
(***************************************************************************)
EXTENDS CardinalityOracle, EstimateFile, UmbraConnector, SequenceTheorems, DataInduction, TLAPS

-----------------------------------------------------------------------------
(* CardinalityOracle.                                                      *)

\* A number below the modulus stays what it is.
LEMMA SmallRemainder == \A m \in Nat \ {0} : \A n \in 0 .. m - 1 : n % m = n
  OBVIOUS

\* A count that an int can hold is read as it is.
LEMMA CountIsRead == \A n \in 0 .. IntMax : AsSize(AsInt(n)) = n
<1> SUFFICES ASSUME NEW n \in 0 .. IntMax PROVE AsSize(AsInt(n)) = n
  OBVIOUS
<1>1. IntMax \in Nat /\ IntValues \in Nat \ {0} /\ IntMax < IntValues
  BY IntMaxAssumption DEF IntValues
<1>2. AsInt(n) = n
  <2>1. n + IntMax + 1 \in 0 .. IntValues - 1
    BY <1>1 DEF IntValues
  <2>2. (n + IntMax + 1) % IntValues = n + IntMax + 1
    BY <1>1, <2>1, SmallRemainder
  <2> QED
    BY <1>1, <2>2 DEF AsInt
<1>3. SizeValues \in Nat \ {0} /\ IntValues <= SizeValues
  <2> DEFINE v == IntValues
  <2>1. v \in Nat /\ 1 <= v
    BY <1>1
  <2> HIDE DEF v
  <2>2. v * v \in Nat /\ v <= v * v
    BY <2>1
  <2> QED
    BY <2>1, <2>2 DEF v, SizeValues
<1>4. n \in 0 .. SizeValues - 1
  BY <1>1, <1>3
<1> QED
  BY <1>2, <1>3, <1>4, SmallRemainder DEF AsSize

\* What an estimate of a signature in a schema may be.
Estimated(k, s) == {Size[k][s]} \cup (IF genEstimates THEN {} ELSE {Failed})

\* The row of a signature is that of the schema it names, a count that is on its way
\* is of the signature asked for in the schema that is set, and only a request that is
\* sent has a connection.
CountInv ==
  /\ genEstimates \in BOOLEAN
  /\ schemaKey \in Schemas
  /\ pc \in {"idle", "send", "store"}
  /\ request.signature \in Signatures
  /\ request = [signature |-> request.signature, failed |-> request.failed]
  /\ DOMAIN stored \subseteq Signatures
  /\ \A s \in DOMAIN stored :
       /\ stored[s].schema \in Schemas
       /\ stored[s].estimate \in Estimated(stored[s].schema, s)
  /\ outerMode \in OuterModes
  /\ pc = "idle" => mode = outerMode
  /\ connected => pc = "send"
  /\ pc = "store" => retrieved \in Estimated(schemaKey, request.signature)
  /\ answer \in {NoAnswer} \cup Estimated(schemaKey, request.signature)

LEMMA CountInit == Init => CountInv
  BY DEF Init, CountInv, Estimated, OuterModes

LEMMA CountStep == SizesFit /\ CountInv /\ [Next]_vars => CountInv'
<1> SUFFICES ASSUME SizesFit, CountInv, [Next]_vars PROVE CountInv'
  OBVIOUS
<1> USE DEF CountInv, given, connector
<1>1. ASSUME NEW s \in Signatures, Remember(s) PROVE CountInv'
  BY <1>1 DEF Remember, Found, Estimated
<1>2. ASSUME NEW s \in Signatures, Ask(s) PROVE CountInv'
  BY <1>2 DEF Ask, Estimated
<1>3. CASE CreateConnector
  BY <1>3 DEF CreateConnector, Estimated
<1>4. CASE Open
  BY <1>4 DEF Open, Estimated
<1>5. CASE OpenFails
  BY <1>5 DEF OpenFails, Abandon, RestoreMode, NeedsConnection, Estimated
<1>6. CASE Count
  <2>1. Size[schemaKey][request.signature] \in 0 .. IntMax
    BY DEF SizesFit
  <2>2. retrieved' = Size[schemaKey][request.signature]
    BY <1>6, <2>1, CountIsRead DEF Count
  <2> QED
    BY <1>6, <2>2 DEF Count, CloseConnection, Estimated
<1>7. CASE QueryFails
  BY <1>7 DEF QueryFails, CountFailed, RetryFailed, CloseConnection, Estimated
<1>8. CASE QueryAborted
  BY <1>8 DEF QueryAborted, Abandon, RestoreMode, CloseConnection, Estimated
<1>9. CASE Store
  BY <1>9 DEF Store, RestoreMode, Estimated
<1>10. CASE Configure
  BY <1>10 DEF Configure, Estimated
<1>11. CASE Restart
  BY <1>11 DEF Restart, Estimated
<1>12. CASE ServerChanges
  BY <1>12 DEF ServerChanges, Estimated
<1>13. CASE UNCHANGED vars
  BY <1>13 DEF vars, Estimated
<1> QED
  BY <1>1, <1>2, <1>3, <1>4, <1>5, <1>6, <1>7, <1>8, <1>9, <1>10, <1>11, <1>12, <1>13
  DEF Next, Work

\* A request of CardinalityOracleDB is answered with the size of its join in the data
\* set of the schema, or with the mark of a failed count, which opt.oracle.genEstimates
\* rules out; and it leaves neither its mode nor its connection behind.
THEOREM CountsAreExact == ASSUME SizesFit PROVE Spec => []AnswersExact
<1>1. CountInv => AnswersExact
  BY DEF CountInv, AnswersExact, AnswerOfSchema, NothingLeft, OnlySizesStored, Estimated
<1> QED
  BY <1>1, CountInit, CountStep, PTL DEF Spec

-----------------------------------------------------------------------------
(* EstimateFile.                                                           *)

Contents == (SUBSET Estimates) \cup {Absent}
LastBackup == (backupId - 1) % Backups

FileTyped ==
  /\ file \in Contents
  /\ backups \in [0 .. Backups - 1 -> Contents]
  /\ backupId \in Nat
  /\ constructed \subseteq Oracles
  /\ known \in [Oracles -> SUBSET Estimates]
  /\ changed \in [Oracles -> BOOLEAN]
  /\ filePc \in {"run", "backup", "copy", "truncate", "write", "terminated"}
  /\ storing \in [oracle : Oracles, destroy : BOOLEAN]
  /\ ends \in Nat
  /\ saved \in SUBSET Estimates
  /\ found \in SUBSET Estimates
  /\ overlap \in BOOLEAN

\* What the last store found is in the file until the copy is made, and then in the
\* backup, as long as this store goes on.
BackupInv ==
  /\ filePc \in {"copy", "truncate", "write"} => backupId > 0
  /\ filePc = "copy" => file = saved
  /\ filePc \in {"truncate", "write"} => backups[LastBackup] = saved
  /\ filePc \in {"truncate", "write"} => file # Absent
  /\ Recoverable

\* The oracle of a store exists, and every oracle knows what the process found, which is
\* in the file except while it is written.
FoundInv ==
  /\ filePc \notin {"run", "terminated"} => storing.oracle \in constructed
  /\ \A o \in constructed : found \subseteq known[o]
  /\ filePc \notin {"truncate", "write"} => found \subseteq Lines(file)

\* As long as no two oracles overlapped there is at most one.  All that is in the file is
\* known to it, and the other way round when it has nothing to store.
AloneInv ==
  \A o \in constructed :
    /\ constructed = {o}
    /\ Lines(file) \subseteq known[o]
    /\ filePc = "run" /\ ~changed[o] => known[o] \subseteq Lines(file)
    /\ filePc \in {"copy", "truncate", "write"} => saved \subseteq known[o]

KnownInv == FoundInv /\ (~overlap => AloneInv)

LEMMA FileInitial == FileInit => FileTyped /\ BackupInv
<1> SUFFICES ASSUME FileInit PROVE FileTyped /\ BackupInv
  OBVIOUS
<1>1. FileTyped
  BY BackupsAssumption, FirstFileAssumption DEF FileInit, FileTyped, Contents, Lines
<1>2. Recoverable
  BY DEF FileInit, Recoverable, AllFiles
<1> QED
  BY <1>1, <1>2 DEF FileInit, BackupInv

LEMMA SlotInRing == FileTyped => backupId % Backups \in 0 .. Backups - 1
  BY BackupsAssumption DEF FileTyped

LEMMA NextLine ==
  ASSUME FileTyped, filePc = "write", file # Absent, WriteLine
  PROVE  \E line \in known[storing.oracle] : file' = file \cup {line}
<1> DEFINE left == known[storing.oracle] \ file
<1>1. left \subseteq Nat /\ left # {}
  BY EstimatesAssumption DEF FileTyped, WriteLine
<1>2. \E m \in left : \A n \in left : m <= n
  BY <1>1, SmallestExists
<1>3. Min(left) \in left
  BY <1>2 DEF Min
<1> QED
  BY <1>3 DEF WriteLine

LEMMA FileTypedStep == FileTyped /\ BackupInv /\ [FileNext]_fileVars => FileTyped'
<1> SUFFICES ASSUME FileTyped, BackupInv, [FileNext]_fileVars PROVE FileTyped'
  OBVIOUS
<1> USE DEF FileTyped, memory, process
<1>1. ASSUME NEW o \in Oracles, Construct(o) PROVE FileTyped'
  BY <1>1 DEF Construct, ReadFile, Lines, Contents
<1>2. ASSUME NEW o \in Oracles, Reordered(o) PROVE FileTyped'
  BY <1>2 DEF Reordered, BeginStore
<1>3. ASSUME NEW o \in Oracles, Destroy(o) PROVE FileTyped'
  BY <1>3 DEF Destroy, BeginStore, MustStore
<1>4. ASSUME NEW o \in Oracles, NEW e \in Estimates, Estimate(o, e) PROVE FileTyped'
  BY <1>4, AutosaveAssumption DEF Estimate, BeginStore
<1>5. CASE CreateBackup
  <2>1. backups' \in [0 .. Backups - 1 -> Contents]
    BY <1>5, SlotInRing DEF CreateBackup, Contents
  <2>2. saved' \in SUBSET Estimates
    BY <1>5 DEF CreateBackup, Contents
  <2> QED
    BY <1>5, <2>1, <2>2 DEF CreateBackup
<1>6. CASE Copy
  <2>1. backups' \in [0 .. Backups - 1 -> Contents]
    BY <1>6 DEF Copy, CopyFile
  <2> QED
    BY <1>6, <2>1 DEF Copy
<1>7. CASE Truncate
  BY <1>7 DEF Truncate, Contents
<1>8. CASE WriteLine
  <2>1. file \in SUBSET Estimates
    BY <1>8 DEF WriteLine, BackupInv, Contents
  <2>2. PICK line \in known[storing.oracle] : file' = file \cup {line}
    BY <1>8, NextLine DEF WriteLine, BackupInv
  <2>3. file' \in Contents
    BY <2>1, <2>2 DEF Contents
  <2> QED
    BY <1>8, <2>3 DEF WriteLine
<1>9. CASE Stored
  BY <1>9 DEF Stored
<1>10. CASE End
  <2>1. storing' \in [oracle : Oracles, destroy : BOOLEAN]
    BY <1>10 DEF End
  <2>2. known' \in [Oracles -> SUBSET Estimates] /\ changed' \in [Oracles -> BOOLEAN]
    BY <1>10 DEF End
  <2>3. found' \in SUBSET Estimates /\ overlap' \in BOOLEAN
    BY <1>10 DEF End, Lines, Contents
  <2>4. ends' \in Nat /\ backupId' = 0 /\ constructed' = {} /\ filePc' = "run"
    BY <1>10 DEF End
  <2>5. UNCHANGED <<file, backups, saved>>
    BY <1>10 DEF End
  <2> QED
    BY <2>1, <2>2, <2>3, <2>4, <2>5
<1>11. CASE UNCHANGED fileVars
  BY <1>11 DEF fileVars
<1> QED
  BY <1>1, <1>2, <1>3, <1>4, <1>5, <1>6, <1>7, <1>8, <1>9, <1>10, <1>11 DEF FileNext

\* A step that leaves the files alone and no store in a later step than the first one.
LEMMA BackupKept ==
  ASSUME BackupInv, UNCHANGED <<file, backups, saved>>, filePc' \in {"run", "backup", "terminated"}
  PROVE  BackupInv'
  BY DEF BackupInv, Recoverable, AllFiles

LEMMA BackupStep == FileTyped /\ BackupInv /\ [FileNext]_fileVars => BackupInv'
<1> SUFFICES ASSUME FileTyped, BackupInv, [FileNext]_fileVars PROVE BackupInv'
  OBVIOUS
<1> USE DEF memory, process
<1>1. ASSUME NEW o \in Oracles, Construct(o) \/ Reordered(o) \/ Destroy(o) PROVE BackupInv'
  BY <1>1, BackupKept DEF Construct, Reordered, Destroy, BeginStore
<1>2. ASSUME NEW o \in Oracles, NEW e \in Estimates, Estimate(o, e) PROVE BackupInv'
  BY <1>2, BackupKept DEF Estimate, BeginStore
<1>3. CASE CreateBackup
  <2>1. CASE file = Absent
    BY <1>3, <2>1, BackupKept DEF CreateBackup
  <2>2. CASE file # Absent
    <3>1. file' = file /\ saved' = file /\ filePc' = "copy" /\ backupId' = backupId + 1
      BY <1>3, <2>2 DEF CreateBackup
    <3>2. Recoverable'
      BY <2>2, <3>1 DEF Recoverable, AllFiles, Lines
    <3> QED
      BY <3>1, <3>2 DEF BackupInv, FileTyped
  <2> QED
    BY <2>1, <2>2
<1>4. CASE Copy
  <2>1. LastBackup \in 0 .. Backups - 1
    BY <1>4, BackupsAssumption DEF Copy, BackupInv, FileTyped, LastBackup
  <2>2. backups' = [backups EXCEPT ![LastBackup] = file] /\ LastBackup' = LastBackup
    BY <1>4 DEF Copy, CopyFile, LastBackup
  <2>3. file' = file /\ saved' = saved /\ filePc' = "truncate" /\ backupId' = backupId /\ file = saved
    BY <1>4 DEF Copy, BackupInv
  <2>4. backups'[LastBackup] = saved
    BY <2>1, <2>2, <2>3 DEF FileTyped
  <2>5. saved # Absent
    BY AbsentAssumption DEF FileTyped
  <2>6. Recoverable'
    BY <2>3, <2>5 DEF Recoverable, AllFiles, Lines
  <2> QED
    BY <1>4, <2>2, <2>3, <2>4, <2>5, <2>6 DEF BackupInv, Copy
<1>5. CASE Truncate \/ WriteLine
  <2>1. /\ UNCHANGED <<backups, backupId, saved>> /\ filePc' = "write"
        /\ filePc \in {"truncate", "write"}
    BY <1>5 DEF Truncate, WriteLine
  <2>2. file' # Absent
    <3>1. CASE Truncate
      BY <3>1, AbsentAssumption DEF Truncate
    <3>2. CASE WriteLine
      <4>1. file' \in SUBSET Estimates
        <5>1. file \in SUBSET Estimates /\ file # Absent
          BY <3>2 DEF BackupInv, FileTyped, Contents, WriteLine
        <5>2. PICK line \in known[storing.oracle] : file' = file \cup {line}
          BY <3>2, <5>1, NextLine DEF WriteLine
        <5> QED
          BY <5>1, <5>2 DEF FileTyped
      <4> QED
        BY <4>1, AbsentAssumption
    <3> QED
      BY <1>5, <3>1, <3>2
  <2>3. LastBackup \in DOMAIN backups /\ backups[LastBackup] = saved /\ saved # Absent
    BY <2>1, BackupsAssumption, AbsentAssumption DEF BackupInv, FileTyped, LastBackup
  <2>4. Recoverable'
    BY <2>1, <2>3 DEF Recoverable, AllFiles, Lines
  <2> QED
    BY <2>1, <2>2, <2>3, <2>4 DEF BackupInv, LastBackup
<1>6. CASE Stored
  BY <1>6, BackupKept DEF Stored
<1>7. CASE End
  BY <1>7, BackupKept DEF End
<1>8. CASE UNCHANGED fileVars
  BY <1>8 DEF fileVars, BackupInv, Recoverable, AllFiles, LastBackup
<1> QED
  BY <1>1, <1>2, <1>3, <1>4, <1>5, <1>6, <1>7, <1>8 DEF FileNext

\* At any step of a store, and after a process that ended in one, the file or a backup
\* has what the file held before: CardinalityOracleCSV loses no estimate to a crash.
THEOREM EstimatesAreRecoverable == FileSpec => []Recoverable
<1>1. FileTyped /\ BackupInv /\ [FileNext]_fileVars => (FileTyped /\ BackupInv)'
  BY FileTypedStep, BackupStep
<1>2. BackupInv => Recoverable
  BY DEF BackupInv
<1> QED
  BY <1>1, <1>2, FileInitial, PTL DEF FileSpec

LEMMA FoundStep ==
  FileTyped /\ BackupInv /\ FoundInv /\ [FileNext]_fileVars => FoundInv'
<1> SUFFICES ASSUME FileTyped, BackupInv, FoundInv, [FileNext]_fileVars PROVE FoundInv'
  OBVIOUS
<1> USE DEF FoundInv, memory, process
<1>1. ASSUME NEW o \in Oracles, Construct(o) PROVE FoundInv'
  BY <1>1 DEF Construct, ReadFile, FileTyped
<1>2. ASSUME NEW o \in Oracles, Reordered(o) PROVE FoundInv'
  BY <1>2 DEF Reordered, BeginStore
<1>3. ASSUME NEW o \in Oracles, Destroy(o) PROVE FoundInv'
  BY <1>3 DEF Destroy, BeginStore, MustStore
<1>4. ASSUME NEW o \in Oracles, NEW e \in Estimates, Estimate(o, e) PROVE FoundInv'
  <2>1. \A p \in Oracles : known[p] \subseteq known'[p]
    BY <1>4 DEF Estimate, FileTyped
  <2>2. /\ file' = file /\ found' = found /\ constructed' = constructed /\ o \in constructed
        /\ filePc' \in {"run", "backup"} /\ storing'.oracle = o /\ filePc = "run"
    BY <1>4 DEF Estimate, BeginStore
  <2> QED
    BY <2>1, <2>2 DEF FileTyped
<1>5. CASE CreateBackup
  BY <1>5 DEF CreateBackup
<1>6. CASE Copy \/ Truncate
  BY <1>6 DEF Copy, Truncate
<1>7. CASE WriteLine
  BY <1>7 DEF WriteLine
<1>8. CASE Stored
  <2>1. /\ known[storing.oracle] \subseteq file /\ storing.oracle \in constructed /\ file # Absent
        /\ constructed' \subseteq constructed /\ filePc' = "run"
        /\ UNCHANGED <<file, known, found>>
    BY <1>8 DEF Stored, BackupInv
  <2> QED
    BY <2>1 DEF Lines
<1>9. CASE End
  BY <1>9 DEF End
<1>10. CASE UNCHANGED fileVars
  BY <1>10 DEF fileVars, Lines
<1> QED
  BY <1>1, <1>2, <1>3, <1>4, <1>5, <1>6, <1>7, <1>8, <1>9, <1>10 DEF FileNext

LEMMA AloneStep ==
  FileTyped /\ BackupInv /\ FoundInv /\ AloneInv /\ [FileNext]_fileVars /\ ~overlap' => AloneInv'
<1> SUFFICES ASSUME FileTyped, BackupInv, FoundInv, AloneInv, [FileNext]_fileVars, ~overlap'
             PROVE  AloneInv'
  OBVIOUS
<1> USE DEF AloneInv, memory, process
<1>1. ASSUME NEW o \in Oracles, Construct(o) PROVE AloneInv'
  BY <1>1 DEF Construct, ReadFile, FileTyped
<1>2. ASSUME NEW o \in Oracles, Reordered(o) PROVE AloneInv'
  BY <1>2 DEF Reordered, BeginStore
<1>3. ASSUME NEW o \in Oracles, Destroy(o) PROVE AloneInv'
  BY <1>3 DEF Destroy, BeginStore, MustStore
<1>4. ASSUME NEW o \in Oracles, NEW e \in Estimates, Estimate(o, e) PROVE AloneInv'
  <2>1. known'[o] = known[o] \cup {e} /\ changed'[o]
    BY <1>4 DEF Estimate, FileTyped
  <2>2. file' = file /\ saved' = saved /\ constructed' = {o} /\ constructed = {o}
    BY <1>4 DEF Estimate
  <2>3. filePc' \in {"run", "backup"}
    BY <1>4 DEF Estimate, BeginStore
  <2> QED
    BY <2>1, <2>2, <2>3 DEF Lines
<1>5. CASE CreateBackup
  <2>1. file # Absent => saved' = Lines(file) /\ filePc' = "copy"
    BY <1>5 DEF CreateBackup, Lines
  <2>2. file = Absent => filePc' = "terminated"
    BY <1>5 DEF CreateBackup
  <2> QED
    BY <1>5, <2>1, <2>2 DEF CreateBackup, Lines
<1>6. CASE Copy
  BY <1>6 DEF Copy
<1>7. CASE Truncate
  BY <1>7 DEF Truncate, Lines
<1>8. CASE WriteLine
  <2> DEFINE o == storing.oracle
  <2>1. file # Absent /\ filePc = "write" /\ o \in constructed /\ constructed = {o}
    BY <1>8 DEF WriteLine, BackupInv, FoundInv
  <2>2. PICK line \in known[o] : file' = file \cup {line}
    BY <1>8, <2>1, NextLine
  <2>3. UNCHANGED <<known, constructed, changed, filePc, saved>>
    BY <1>8 DEF WriteLine
  <2>4. Lines(file') \subseteq known[o]
    BY <2>1, <2>2 DEF Lines
  <2> QED
    BY <2>1, <2>3, <2>4 DEF Lines
<1>9. CASE Stored
  <2>1. /\ storing.oracle \in constructed /\ known[storing.oracle] \subseteq file /\ file # Absent
        /\ constructed' \subseteq constructed /\ filePc' = "run" /\ UNCHANGED <<file, known, saved>>
    BY <1>9 DEF Stored, BackupInv, FoundInv
  <2> QED
    BY <2>1 DEF Lines
<1>10. CASE End
  BY <1>10 DEF End
<1>11. CASE UNCHANGED fileVars
  BY <1>11 DEF fileVars, Lines
<1> QED
  BY <1>1, <1>2, <1>3, <1>4, <1>5, <1>6, <1>7, <1>8, <1>9, <1>10, <1>11 DEF FileNext

\* Only the end of the process forgets that two oracles overlapped, and no oracle survives it.
LEMMA KnownStep ==
  FileTyped /\ BackupInv /\ KnownInv /\ [FileNext]_fileVars => KnownInv'
<1> SUFFICES ASSUME FileTyped, BackupInv, KnownInv, [FileNext]_fileVars, ~overlap'
             PROVE  AloneInv'
  BY FoundStep DEF KnownInv
<1>1. CASE End
  BY <1>1 DEF End, AloneInv
<1>2. CASE ~End
  <2>1. ~overlap
    BY <1>2 DEF FileNext, fileVars, memory, process, FileTyped, Construct, Reordered, Destroy, Estimate,
                CreateBackup, Copy, Truncate, WriteLine, Stored
  <2> QED
    BY <2>1, AloneStep DEF KnownInv
<1> QED
  BY <1>1, <1>2

\* An oracle goes in an orderly way only when it has nothing to store, or has just done so.
LEMMA OrderlyEnd ==
  ASSUME FileTyped, BackupInv, KnownInv, [FileNext]_fileVars,
         NEW o \in Oracles, o \in constructed, o \notin constructed', ends' = ends, changed[o] \/ ~overlap
  PROVE  known[o] \subseteq file'
<1>1. ASSUME NEW p \in Oracles, Destroy(p) PROVE known[o] \subseteq file'
  <2>1. p = o /\ filePc = "run" /\ ~changed[o] /\ file' = file
    BY <1>1 DEF Destroy, MustStore
  <2> QED
    BY <2>1 DEF KnownInv, AloneInv, Lines
<1>2. CASE Stored
  BY <1>2 DEF Stored, FileTyped
<1>3. ~End
  BY DEF End, FileTyped
<1> QED
  BY <1>1, <1>2, <1>3
  DEF FileNext, fileVars, memory, Construct, Reordered, Estimate, CreateBackup, Copy, Truncate, WriteLine

LEMMA StoreDone ==
  ASSUME FileTyped, KnownInv, [FileNext]_fileVars,
         filePc = "write", filePc' = "run", ends' = ends, ~overlap
  PROVE  saved \subseteq file'
<1>1. Stored
  BY DEF FileNext, fileVars, memory, Construct, Reordered, Destroy, Estimate, CreateBackup, Copy,
         Truncate, WriteLine, End, FileTyped
<1> QED
  BY <1>1 DEF Stored, FileTyped, KnownInv, FoundInv, AloneInv

\* Whatever oracles come, go and overlap, the file keeps what the process found in it, and
\* an oracle that has something to store leaves all it knows; without an overlap neither an
\* orderly end nor a store loses an estimate.
THEOREM EstimatesAreKept == FileSpec => EstimatesKept
<1> DEFINE Inv == FileTyped /\ BackupInv /\ KnownInv
           Kept == filePc = "run" => found \subseteq Lines(file)
           Forgets == \A o \in Oracles :
             /\ o \in constructed /\ o \notin constructed' /\ ends' = ends
             /\ changed[o] \/ ~overlap
             => known[o] \subseteq file'
           Keeps == filePc = "write" /\ filePc' = "run" /\ ends' = ends /\ ~overlap => saved \subseteq file'
<1>1. FileInit => Inv
  BY FileInitial DEF FileInit, KnownInv, FoundInv, AloneInv
<1>2. Inv /\ [FileNext]_fileVars => Inv'
  BY FileTypedStep, BackupStep, KnownStep
<1>3. Inv /\ [FileNext]_fileVars => [Forgets]_fileVars /\ [Keeps]_fileVars
  BY OrderlyEnd, StoreDone
<1>4. Inv => Kept
  BY DEF KnownInv, FoundInv
<1> HIDE DEF Inv
<1>5. FileSpec => []Kept /\ [][Forgets]_fileVars /\ [][Keeps]_fileVars
  BY <1>1, <1>2, <1>3, <1>4, PTL DEF FileSpec
<1> QED
  BY <1>5, PTL DEF EstimatesKept, FoundKept, NothingForgotten, StoreKeeps

-----------------------------------------------------------------------------
(* UmbraConnector.                                                         *)

Char == [command : Nat, head : BOOLEAN, ends : BOOLEAN]

\* The lines of the answer, behind a header of two characters.
IsAnswer(text) ==
  /\ text \in Seq(Char)
  /\ Len(text) >= 2
  /\ text[2].ends

\* A text whose last character is its only end of a line.
OneLine(text) ==
  /\ text \in Seq(Char)
  /\ text # <<>>
  /\ \A i \in 1 .. Len(text) : text[i].ends <=> i = Len(text)

LEMMA LineIs ==
  ASSUME NEW n \in Nat, NEW k \in Nat
  PROVE  /\ Line(n, k) \in Seq(Char) /\ Len(Line(n, k)) = k
         /\ \A i \in 1 .. k : Line(n, k)[i].ends <=> i = k
<1>1. Line(n, k) \in [1 .. k -> Char]
  BY DEF Line, Char
<1>2. Line(n, k) \in Seq(Char)
  BY <1>1
<1>3. Len(Line(n, k)) = k
  BY DEF Line
<1> QED
  BY <1>2, <1>3 DEF Line

\* The parts of a text that is put together.
LEMMA Together ==
  ASSUME NEW S, NEW s \in Seq(S), NEW t \in Seq(S)
  PROVE  /\ s \o t \in Seq(S) /\ Len(s \o t) = Len(s) + Len(t)
         /\ Len(s) \in Nat /\ Len(t) \in Nat
         /\ \A i \in 1 .. Len(s) : (s \o t)[i] = s[i]
         /\ \A i \in 1 .. Len(t) : (s \o t)[Len(s) + i] = t[i]
<1>1. Len(s) \in Nat /\ Len(t) \in Nat
  BY LenProperties
<1>2. /\ s \o t \in Seq(S) /\ Len(s \o t) = Len(s) + Len(t)
      /\ \A i \in 1 .. Len(s) + Len(t) : (s \o t)[i] = IF i <= Len(s) THEN s[i] ELSE t[i - Len(s)]
  BY ConcatProperties
<1>3. ASSUME NEW i \in 1 .. Len(t) PROVE (s \o t)[Len(s) + i] = t[i]
  <2>1. Len(s) + i \in 1 .. Len(s) + Len(t) /\ ~(Len(s) + i <= Len(s)) /\ Len(s) + i - Len(s) = i
    BY <1>1
  <2> QED
    BY <1>2, <2>1
<1> QED
  BY <1>1, <1>2, <1>3

LEMMA AnswerIsAnswer ==
  ASSUME NEW n \in Nat, NEW result \in Results
  PROVE  IsAnswer(Answer(n, result))
<1>1. Body(n, result) \in Seq(Char)
  <2>1. /\ result \in Seq(BOOLEAN) /\ Len(result) \in Nat /\ DOMAIN result = 1 .. Len(result)
    BY ResultsAssumption, LenProperties
  <2>2. \A i \in 1 .. Len(result) : result[i] \in BOOLEAN
    BY <2>1, ElementOfSeq
  <2>3. Body(n, result) \in [1 .. Len(result) -> Char]
    BY <2>1, <2>2 DEF Body, Char
  <2> QED
    BY <2>1, <2>3
<1>2. Header(n) \in Seq(Char) /\ Len(Header(n)) = 2 /\ Header(n)[2].ends
  <2>1. /\ Header(n) \in Seq(Char) /\ Len(Header(n)) = 2
        /\ \A i \in 1 .. 2 : Header(n)[i].ends <=> i = 2
    BY LineIs DEF Header
  <2> QED
    BY <2>1
<1>3. /\ Header(n) \o Body(n, result) \in Seq(Char)
      /\ Len(Header(n) \o Body(n, result)) = Len(Header(n)) + Len(Body(n, result))
      /\ Len(Body(n, result)) \in Nat
      /\ \A i \in 1 .. Len(Header(n)) : (Header(n) \o Body(n, result))[i] = Header(n)[i]
  BY <1>1, <1>2, Together
<1> QED
  BY <1>2, <1>3 DEF IsAnswer, Answer

PipeTyped ==
  /\ childAlive \in BOOLEAN
  /\ pipePc \in {"startup", "idle", "read", "exited", "killed"}
  /\ sent \in Nat
  /\ commands \in Seq(Nat)
  /\ writing \in Seq(Char)
  /\ pipe \in Seq(Char)
  /\ output \in Seq(Char)
  /\ expected \in Seq(Seq(Char))
  /\ \A n \in 1 .. Len(expected) : IsAnswer(expected[n])

\* No answer so far can be cut by a read.
Unrisky == \A n \in 1 .. Len(expected) : ~Risky(expected[n])

\* A part of the greeting is still to be read.
StartingUp ==
  /\ childAlive /\ sent = 0
  /\ commands = <<>> /\ expected = <<>>
  /\ OneLine(pipe \o writing)

\* The whole answer was read, or nothing that could be taken for a count.
Settled ==
  \/ Counted(output) = NoCount
  \/ sent > 0 /\ Len(expected) = sent /\ output = expected[sent]

\* Nothing is under way, unless the child died over the last command.
AtRest ==
  /\ pipe = <<>>
  /\ childAlive => /\ commands = <<>> /\ writing = <<>>
                   /\ Len(expected) = sent
                   /\ sent > 0 => output = expected[sent]
  /\ Settled

\* The command is on its way to the child.
Commanded ==
  /\ commands = <<sent>> /\ writing = <<>> /\ pipe = <<>> /\ output = <<>>
  /\ Len(expected) = sent - 1

\* The answer was read so far, is in the pipe, or still to be written.  A child that
\* writes at once has written nothing or everything, and then full buffers were read
\* or the rest.
Answering ==
  /\ commands = <<>>
  /\ Len(expected) = sent
  /\ expected[sent] = output \o (pipe \o writing)
  /\ WritesWhole =>
       \/ writing = <<>> /\ (pipe # <<>> => Len(output) % Buffer = 0)
       \/ output = <<>> /\ pipe = <<>>

InStep ==
  /\ pipePc = "startup" => StartingUp
  /\ pipePc = "idle" => AtRest
  /\ pipePc = "read" => sent > 0 /\ (Commanded \/ Answering)
  /\ pipePc \in {"exited", "killed"} => ~childAlive

PipeInv == PipeTyped /\ (Unrisky => InStep)

LEMMA GreetingIs == OneLine(Greeting)
<1>1. /\ Line(0, 2) \in Seq(Char) /\ Len(Line(0, 2)) = 2
      /\ \A i \in 1 .. 2 : Line(0, 2)[i].ends <=> i = 2
  <2>1. 0 \in Nat /\ 2 \in Nat
    OBVIOUS
  <2> QED
    BY <2>1, LineIs
<1>2. /\ Greeting \in Seq(Char) /\ Len(Greeting) = 2
      /\ \A i \in 1 .. 2 : Greeting[i].ends <=> i = 2
  BY <1>1 DEF Greeting
<1>3. Greeting # <<>>
  BY <1>2, EmptySeq
<1> QED
  BY <1>2, <1>3 DEF OneLine

LEMMA PipeStarts == PipeInit => PipeInv
<1> SUFFICES ASSUME PipeInit PROVE PipeInv
  OBVIOUS
<1>1. PipeTyped
  BY GreetingIs DEF PipeInit, PipeTyped, OneLine
<1>2. StartingUp
  <2>1. <<>> \o Greeting = Greeting
    BY GreetingIs, ConcatEmptySeq DEF OneLine
  <2> QED
    BY <2>1, GreetingIs DEF PipeInit, StartingUp
<1> QED
  BY <1>1, <1>2 DEF PipeInit, PipeInv, InStep

\* A sequence that is cut in two.
LEMMA CutIs ==
  ASSUME NEW S, NEW text \in Seq(S), NEW k \in 1 .. Len(text)
  PROVE  /\ SubSeq(text, 1, k) \in Seq(S) /\ Len(SubSeq(text, 1, k)) = k
         /\ SubSeq(text, k + 1, Len(text)) \in Seq(S)
         /\ Len(SubSeq(text, k + 1, Len(text))) = Len(text) - k
         /\ SubSeq(text, 1, k) \o SubSeq(text, k + 1, Len(text)) = text
<1> DEFINE n == Len(text)
<1>1. n \in Nat /\ \A i \in 1 .. n : text[i] \in S
  BY LenProperties, ElementOfSeq
<1> HIDE DEF n
<1>2. 1 \in Int /\ k \in Int /\ 1 <= k /\ k <= n /\ n \in Int /\ k + 1 \in Int
  BY <1>1 DEF n
<1>3. SubSeq(text, 1, k) \in Seq(S) /\ Len(SubSeq(text, 1, k)) = k
  <2>1. \A i \in 1 .. k : text[i] \in S
    BY <1>1, <1>2
  <2>2. /\ SubSeq(text, 1, k) \in Seq(S)
        /\ Len(SubSeq(text, 1, k)) = IF 1 <= k THEN k - 1 + 1 ELSE 0
    BY <1>2, <2>1, SubSeqProperties
  <2> QED
    BY <1>2, <2>2
<1>4. SubSeq(text, k + 1, n) \in Seq(S) /\ Len(SubSeq(text, k + 1, n)) = n - k
  <2> DEFINE m == k + 1
  <2>1. m \in Int /\ \A i \in m .. n : text[i] \in S
    BY <1>1, <1>2
  <2> HIDE DEF m
  <2>2. /\ SubSeq(text, m, n) \in Seq(S)
        /\ Len(SubSeq(text, m, n)) = IF m <= n THEN n - m + 1 ELSE 0
    BY <1>2, <2>1, SubSeqProperties
  <2> QED
    BY <1>2, <2>2 DEF m
<1>5. SubSeq(text, 1, k) \o SubSeq(text, k + 1, n) = SubSeq(text, 1, n)
  <2>1. 1 \in 1 .. n + 1 /\ k \in 1 - 1 .. n /\ n \in k .. n
    BY <1>1, <1>2
  <2> QED
    BY <2>1, ConcatAdjacentSubSeq DEF n
<1>6. SubSeq(text, 1, n) = text
  BY SubSeqFull DEF n
<1> QED
  BY <1>3, <1>4, <1>5, <1>6 DEF n

\* What one read takes, and what it leaves.
LEMMA ReadIs ==
  ASSUME PipeTyped, pipe # <<>>
  PROVE  /\ CountRead \in 1 .. Len(pipe)
         /\ CountRead = Len(pipe) \/ CountRead = Buffer
         /\ Chunk \in Seq(Char) /\ Len(Chunk) = CountRead /\ Chunk # <<>>
         /\ Rest \in Seq(Char) /\ Len(Rest) = Len(pipe) - CountRead
         /\ Chunk \o Rest = pipe
<1>1. Len(pipe) \in Nat \ {0} /\ pipe \in Seq(Char)
  BY EmptySeq, LenProperties DEF PipeTyped
<1>2. CountRead \in 1 .. Len(pipe) /\ (CountRead = Len(pipe) \/ CountRead = Buffer)
  BY <1>1, BufferAssumption DEF CountRead
<1>3. /\ Chunk \in Seq(Char) /\ Len(Chunk) = CountRead
      /\ Rest \in Seq(Char) /\ Len(Rest) = Len(pipe) - CountRead
      /\ Chunk \o Rest = pipe
  BY <1>1, <1>2, CutIs DEF Chunk, Rest
<1>4. Chunk # <<>>
  <2>1. Len(Chunk) # 0
    BY <1>1, <1>2, <1>3
  <2> QED
    BY <2>1, EmptySeq
<1> QED
  BY <1>2, <1>3, <1>4

LEMMA NothingCounted == Counted(<<>>) = NoCount
<1>1. Len(<<>>) < 3
  OBVIOUS
<1> QED
  BY <1>1 DEF Counted

\* With the next full buffer a multiple of the buffer becomes the next one.
LEMMA NextMultiple ==
  ASSUME NEW n \in Nat, n % Buffer = 0
  PROVE  (n + Buffer) % Buffer = 0
<1> DEFINE q == n \div Buffer
           p == (n + Buffer) \div Buffer
           r == (n + Buffer) % Buffer
<1>1. Buffer \in Nat \ {0} /\ n + Buffer \in Nat
  BY BufferAssumption
<1>2. q \in Int /\ n = Buffer * q
  BY <1>1
<1>3. p \in Int /\ r \in 0 .. Buffer - 1 /\ n + Buffer = Buffer * p + r
  BY <1>1
<1> HIDE DEF q, p, r
<1>4. q + 1 - p \in Int /\ r = Buffer * (q + 1 - p)
  BY <1>1, <1>2, <1>3
<1>5. \A k \in Int : k >= 1 => Buffer * k >= Buffer
  BY <1>1
<1>6. \A k \in Int : k <= -1 => Buffer * k <= -Buffer
  BY <1>1
<1>7. q + 1 - p = 0
  BY <1>1, <1>3, <1>4, <1>5, <1>6
<1> QED
  BY <1>1, <1>3, <1>4, <1>7 DEF r

LEMMA PipeTypedStep == PipeTyped /\ [PipeNext]_pipeVars => PipeTyped'
<1> SUFFICES ASSUME PipeTyped, [PipeNext]_pipeVars PROVE PipeTyped'
  OBVIOUS
<1>1. CASE Take
  <2>1. PICK result \in Results :
          writing' = Answer(Head(commands), result) /\ expected' = Append(expected, writing')
    BY <1>1 DEF Take
  <2>2. Head(commands) \in Nat /\ commands' \in Seq(Nat)
    BY <1>1, EmptySeq DEF Take, PipeTyped
  <2>3. IsAnswer(writing') /\ writing' \in Seq(Char)
    BY <2>1, <2>2, AnswerIsAnswer DEF IsAnswer
  <2>4. expected \in Seq(Seq(Char)) /\ Len(expected) \in Nat
    BY LenProperties DEF PipeTyped
  <2>5. /\ expected' \in Seq(Seq(Char)) /\ Len(expected') = Len(expected) + 1
        /\ expected'[Len(expected) + 1] = writing'
        /\ \A n \in 1 .. Len(expected) : expected'[n] = expected[n]
    BY <2>1, <2>3, <2>4, AppendProperties
  <2>6. ASSUME NEW n \in 1 .. Len(expected') PROVE IsAnswer(expected'[n])
    <3>1. n \in 1 .. Len(expected) \/ n = Len(expected) + 1
      BY <2>4, <2>5
    <3> QED
      BY <2>3, <2>5, <3>1 DEF PipeTyped
  <2> QED
    BY <1>1, <2>2, <2>3, <2>5, <2>6 DEF Take, PipeTyped
<1>2. CASE Write
  <2>1. PICK n \in 1 .. Len(writing) :
          pipe' = pipe \o SubSeq(writing, 1, n) /\ writing' = SubSeq(writing, n + 1, Len(writing))
    BY <1>2 DEF Write
  <2>2. SubSeq(writing, 1, n) \in Seq(Char) /\ writing' \in Seq(Char)
    BY <2>1, CutIs DEF PipeTyped
  <2>3. pipe' \in Seq(Char)
    BY <2>1, <2>2 DEF PipeTyped
  <2> QED
    BY <1>2, <2>2, <2>3 DEF Write, PipeTyped
<1>3. CASE Startup
  <2>1. Rest \in Seq(Char)
    <3>1. CASE pipe = <<>>
      BY <3>1, BufferAssumption DEF Rest, CountRead
    <3>2. CASE pipe # <<>>
      BY <3>2, ReadIs
    <3> QED
      BY <3>1, <3>2
  <2> QED
    BY <1>3, <2>1 DEF Startup, ReadStartup, PipeTyped
<1>4. CASE Read
  <2>1. Chunk \in Seq(Char) /\ Rest \in Seq(Char)
    BY <1>4, ReadIs DEF Read
  <2>2. output' \in Seq(Char) /\ pipe' \in Seq(Char)
    BY <1>4, <2>1 DEF Read, PipeTyped
  <2> QED
    BY <1>4, <2>2 DEF Read, PipeTyped
<1>5. CASE Send
  <2>1. sent' \in Nat /\ output' = <<>> /\ pipePc' \in {"read", "killed"}
        /\ UNCHANGED <<childAlive, writing, pipe, expected>>
    BY <1>5 DEF Send, PipeTyped
  <2>2. commands' \in Seq(Nat)
    <3>1. commands' = commands \/ commands' = Append(commands, sent')
      BY <1>5 DEF Send
    <3>2. commands \in Seq(Nat)
      BY DEF PipeTyped
    <3> QED
      BY <2>1, <3>1, <3>2, AppendProperties
  <2> QED
    BY <2>1, <2>2 DEF PipeTyped
<1>6. CASE Die \/ ReadEnd \/ Quit
  BY <1>6 DEF Die, ReadEnd, Quit, PipeTyped
<1>7. CASE UNCHANGED pipeVars
  BY <1>7 DEF pipeVars, PipeTyped
<1> QED
  BY <1>1, <1>2, <1>3, <1>4, <1>5, <1>6, <1>7 DEF PipeNext

LEMMA TakeStep == PipeTyped /\ PipeTyped' /\ InStep /\ Take => InStep'
<1> SUFFICES ASSUME PipeTyped, PipeTyped', InStep, Take PROVE InStep'
  OBVIOUS
<1>1. PICK result \in Results :
        /\ writing' = Answer(Head(commands), result)
        /\ expected' = Append(expected, writing')
  BY DEF Take
<1>2. /\ childAlive /\ writing = <<>> /\ commands # <<>> /\ commands' = Tail(commands)
      /\ UNCHANGED <<childAlive, pipe, pipePc, sent, output>>
  BY DEF Take
<1>3. pipePc = "read" /\ sent > 0 /\ Commanded
  <2>1. pipePc = "read"
    BY <1>2 DEF PipeTyped, InStep, StartingUp, AtRest
  <2> QED
    BY <1>2, <2>1 DEF InStep, Answering
<1>4. sent \in Nat /\ expected \in Seq(Seq(Char)) /\ Len(expected) = sent - 1 /\ writing' \in Seq(Char)
  BY <1>3 DEF PipeTyped, Commanded
<1>5. commands' = <<>> /\ pipe' = <<>> /\ output' = <<>>
  BY <1>2, <1>3, <1>4 DEF Commanded
<1>6. Len(expected') = sent /\ expected'[sent] = writing'
  BY <1>1, <1>3, <1>4
<1>7. <<>> \o (<<>> \o writing') = writing'
  BY <1>4, ConcatEmptySeq
<1>8. Answering'
  BY <1>2, <1>5, <1>6, <1>7 DEF Answering
<1> QED
  BY <1>2, <1>3, <1>8 DEF InStep

LEMMA WriteStep == PipeTyped /\ InStep /\ Write => InStep'
<1> SUFFICES ASSUME PipeTyped, InStep, Write PROVE InStep'
  OBVIOUS
<1>1. /\ childAlive
      /\ UNCHANGED <<childAlive, commands, pipePc, sent, output, expected>>
  BY DEF Write
<1>2. PICK n \in 1 .. Len(writing) :
        /\ WritesWhole => n = Len(writing)
        /\ pipe' = pipe \o SubSeq(writing, 1, n)
        /\ writing' = SubSeq(writing, n + 1, Len(writing))
  BY DEF Write
<1>3. /\ SubSeq(writing, 1, n) \in Seq(Char) /\ writing' \in Seq(Char)
      /\ Len(writing') = Len(writing) - n
      /\ SubSeq(writing, 1, n) \o writing' = writing
  BY <1>2, CutIs DEF PipeTyped
<1>4. pipe' \o writing' = pipe \o writing
  <2>1. (pipe \o SubSeq(writing, 1, n)) \o writing' = pipe \o (SubSeq(writing, 1, n) \o writing')
    <3>1. pipe \in Seq(Char)
      BY DEF PipeTyped
    <3> QED
      BY <1>3, <3>1, ConcatAssociative
  <2> QED
    BY <1>2, <1>3, <2>1
<1>5. writing # <<>>
  <2>1. Len(writing) # 0
    BY <1>2
  <2> QED
    BY <2>1, EmptySeq DEF PipeTyped
<1>6. WritesWhole => writing' = <<>>
  <2>1. Len(writing) \in Nat
    BY LenProperties DEF PipeTyped
  <2>2. WritesWhole => Len(writing') = 0
    BY <1>2, <1>3, <2>1
  <2> QED
    BY <1>3, <2>2, EmptySeq
<1>7. CASE pipePc = "startup"
  BY <1>1, <1>4, <1>7 DEF InStep, StartingUp
<1>8. CASE pipePc = "read"
  <2>1. Answering /\ sent > 0
    BY <1>5, <1>8 DEF InStep, Commanded
  <2>2. WritesWhole => output = <<>> /\ pipe = <<>>
    BY <1>5, <2>1 DEF Answering
  <2>3. Len(<<>>) % Buffer = 0
    BY BufferAssumption, SmallRemainder
  <2>4. Answering'
    BY <1>1, <1>4, <1>6, <2>1, <2>2, <2>3 DEF Answering
  <2> QED
    BY <1>1, <1>8, <2>1, <2>4 DEF InStep
<1>9. CASE pipePc \notin {"startup", "read"}
  BY <1>1, <1>5, <1>9 DEF PipeTyped, InStep, AtRest
<1> QED
  BY <1>7, <1>8, <1>9

LEMMA StartupStep == PipeTyped /\ PipeTyped' /\ InStep /\ Startup => InStep'
<1> SUFFICES ASSUME PipeTyped, PipeTyped', InStep, Startup PROVE InStep'
  OBVIOUS
<1>1. /\ writing = <<>> /\ childAlive /\ sent = 0 /\ commands = <<>> /\ expected = <<>>
      /\ OneLine(pipe)
  <2>1. pipe \o <<>> = pipe
    BY ConcatEmptySeq DEF PipeTyped
  <2> QED
    BY <2>1 DEF Startup, InStep, StartingUp
<1>2. /\ pipe' = Rest /\ output' = <<>>
      /\ UNCHANGED <<childAlive, commands, writing, sent, expected>>
      /\ pipePc' = IF pipe = <<>> \/ EndsLine(Chunk) THEN "idle" ELSE "startup"
  BY DEF Startup, ReadStartup
<1>3. /\ CountRead \in 1 .. Len(pipe)
      /\ Chunk \in Seq(Char) /\ Len(Chunk) = CountRead /\ Chunk # <<>>
      /\ Rest \in Seq(Char) /\ Len(Rest) = Len(pipe) - CountRead /\ Chunk \o Rest = pipe
  BY <1>1, ReadIs DEF OneLine
<1>4. Len(pipe) \in Nat /\ CountRead \in Nat
  BY <1>3, LenProperties DEF PipeTyped
<1>5. /\ \A i \in 1 .. CountRead : pipe[i] = Chunk[i]
      /\ \A i \in 1 .. Len(Rest) : pipe[CountRead + i] = Rest[i]
  BY <1>3, Together
<1>6. EndsLine(Chunk) <=> CountRead = Len(pipe)
  <2>1. EndsLine(Chunk) <=> Chunk[CountRead].ends
    BY <1>3 DEF EndsLine, Last
  <2>2. Chunk[CountRead] = pipe[CountRead]
    BY <1>3, <1>4, <1>5
  <2> QED
    BY <1>1, <1>3, <2>1, <2>2 DEF OneLine
<1>7. CASE EndsLine(Chunk)
  <2>1. pipe' = <<>> /\ pipePc' = "idle"
    BY <1>2, <1>3, <1>4, <1>6, <1>7, EmptySeq
  <2>2. AtRest'
    BY <1>1, <1>2, <2>1, NothingCounted DEF AtRest, Settled
  <2> QED
    BY <2>1, <2>2 DEF InStep
<1>8. CASE ~EndsLine(Chunk)
  <2>1. Len(Rest) > 0 /\ Len(Rest) \in Nat
    BY <1>3, <1>4, <1>6, <1>8
  <2>2. Rest # <<>>
    BY <2>1
  <2>3. \A i \in 1 .. Len(Rest) : Rest[i].ends <=> i = Len(Rest)
    <3>1. ASSUME NEW i \in 1 .. Len(Rest) PROVE Rest[i].ends <=> i = Len(Rest)
      <4>1. CountRead + i \in 1 .. Len(pipe) /\ (CountRead + i = Len(pipe) <=> i = Len(Rest))
        BY <1>3, <1>4, <2>1
      <4>2. pipe[CountRead + i].ends <=> CountRead + i = Len(pipe)
        BY <1>1, <4>1 DEF OneLine
      <4> QED
        BY <1>5, <4>1, <4>2
    <3> QED
      BY <3>1
  <2>4. OneLine(Rest)
    BY <1>3, <2>2, <2>3 DEF OneLine
  <2>5. pipe' \o writing' = Rest
    BY <1>1, <1>2, <1>3, ConcatEmptySeq
  <2>6. pipe # <<>>
    BY <1>1 DEF OneLine
  <2>7. StartingUp'
    BY <1>1, <1>2, <2>4, <2>5 DEF StartingUp
  <2> QED
    BY <1>2, <1>8, <2>6, <2>7 DEF InStep
<1> QED
  BY <1>7, <1>8

\* A read ends a line of an answer that cannot be cut only with the last one.
LEMMA ReadStep == PipeTyped /\ Unrisky /\ InStep /\ Read => InStep'
<1> SUFFICES ASSUME PipeTyped, Unrisky, InStep, Read PROVE InStep'
  OBVIOUS
<1> DEFINE text == expected[sent]
<1>1. pipePc = "read" /\ pipe # <<>> /\ sent > 0 /\ Answering
  BY DEF InStep, Read, Commanded
<1>2. /\ output' = output \o Chunk /\ pipe' = Rest
      /\ UNCHANGED <<childAlive, commands, writing, sent, expected>>
      /\ pipePc' = IF ReadEnds(Chunk) THEN "idle" ELSE "read"
  BY DEF Read
<1>3. text \in Seq(Char) /\ ~Risky(text)
  <2>1. sent \in 1 .. Len(expected)
    BY <1>1 DEF Answering, PipeTyped
  <2> QED
    BY <2>1 DEF PipeTyped, IsAnswer, Unrisky
<1>4. /\ CountRead \in 1 .. Len(pipe) /\ (CountRead = Len(pipe) \/ CountRead = Buffer)
      /\ Chunk \in Seq(Char) /\ Len(Chunk) = CountRead /\ Chunk # <<>>
      /\ Rest \in Seq(Char) /\ Len(Rest) = Len(pipe) - CountRead /\ Chunk \o Rest = pipe
  BY <1>1, ReadIs
<1>5. /\ output \in Seq(Char) /\ pipe \in Seq(Char) /\ writing \in Seq(Char)
      /\ Len(output) \in Nat /\ Len(pipe) \in Nat /\ Len(writing) \in Nat /\ Buffer \in Nat \ {0}
  BY LenProperties, BufferAssumption DEF PipeTyped
<1>6. /\ output' \in Seq(Char) /\ Len(output') = Len(output) + CountRead
      /\ output'[Len(output) + CountRead] = Chunk[CountRead]
  <2>1. /\ output \o Chunk \in Seq(Char) /\ Len(output \o Chunk) = Len(output) + Len(Chunk)
        /\ \A i \in 1 .. Len(Chunk) : (output \o Chunk)[Len(output) + i] = Chunk[i]
    <3>1. output \in Seq(Char) /\ Chunk \in Seq(Char)
      BY <1>4, <1>5
    <3> QED
      BY <3>1, Together
  <2>2. CountRead \in 1 .. Len(Chunk)
    BY <1>4, <1>5
  <2> QED
    BY <1>2, <1>4, <2>1, <2>2
<1>7. text = output' \o (pipe' \o writing)
  <2>1. text = output \o ((Chunk \o Rest) \o writing)
    BY <1>1, <1>4 DEF Answering
  <2> HIDE DEF text
  <2>2. output \in Seq(Char) /\ Chunk \in Seq(Char) /\ Rest \in Seq(Char) /\ writing \in Seq(Char)
    BY <1>4, <1>5
  <2>3. (Chunk \o Rest) \o writing = Chunk \o (Rest \o writing)
    BY <2>2, ConcatAssociative
  <2>4. (output \o Chunk) \o (Rest \o writing) = output \o (Chunk \o (Rest \o writing))
    <3>1. Rest \o writing \in Seq(Char)
      <4>1. Rest \in Seq(Char) /\ writing \in Seq(Char)
        BY <2>2
      <4> QED
        BY <4>1, Together
    <3>2. output \in Seq(Char) /\ Chunk \in Seq(Char)
      BY <2>2
    <3> QED
      BY <3>1, <3>2, ConcatAssociative
  <2> QED
    BY <1>2, <2>1, <2>3, <2>4 DEF text
<1> HIDE DEF text
<1>8. /\ pipe' \in Seq(Char) /\ pipe' \o writing \in Seq(Char)
      /\ Len(pipe' \o writing) = Len(pipe) - CountRead + Len(writing)
      /\ Len(text) = Len(output') + Len(pipe' \o writing)
      /\ \A i \in 1 .. Len(output') : text[i] = output'[i]
  <2>1. pipe' \in Seq(Char) /\ Len(pipe') = Len(pipe) - CountRead
    BY <1>2, <1>4
  <2>2. pipe' \o writing \in Seq(Char) /\ Len(pipe' \o writing) = Len(pipe') + Len(writing)
    BY <1>5, <2>1, Together
  <2>3. /\ Len(output' \o (pipe' \o writing)) = Len(output') + Len(pipe' \o writing)
        /\ \A i \in 1 .. Len(output') : (output' \o (pipe' \o writing))[i] = output'[i]
    <3>1. output' \in Seq(Char) /\ pipe' \o writing \in Seq(Char)
      BY <1>6, <2>2
    <3> QED
      BY <3>1, Together
  <2> QED
    BY <1>7, <2>1, <2>2, <2>3
<1>9. Len(output') \in Nat \ {0} /\ Len(text) \in Nat /\ Len(output') <= Len(text)
  BY <1>4, <1>5, <1>6, <1>8
<1>10. WritesWhole => writing = <<>> /\ Len(output) % Buffer = 0
  BY <1>1 DEF Answering
<1>11. WritesWhole /\ CountRead # Len(pipe) => Len(output') % Buffer = 0
  BY <1>4, <1>5, <1>6, <1>10, NextMultiple
<1>12. WritesWhole /\ CountRead = Len(pipe) => Len(output') = Len(text)
  <2>1. writing = <<>> => Len(writing) = 0
    OBVIOUS
  <2> QED
    BY <1>5, <1>8, <1>9, <1>10, <2>1
<1>13. CASE ReadEnds(Chunk)
  <2>1. text[Len(output')].ends
    <3>1. Chunk[CountRead].ends
      BY <1>4, <1>13 DEF ReadEnds, EndsLine, Last
    <3> QED
      BY <1>6, <1>8, <1>9, <3>1
  <2>2. Len(output') = Len(text)
    <3>1. SUFFICES ASSUME Len(output') # Len(text) PROVE FALSE
      OBVIOUS
    <3>2. Len(output') \in 1 .. Len(text) - 1
      BY <1>9, <3>1
    <3>3. WritesWhole => Len(output') % Buffer = 0
      BY <1>11, <1>12, <3>1
    <3> QED
      BY <1>3, <2>1, <3>2, <3>3 DEF Risky
  <2>3. pipe' \o writing = <<>>
    <3>1. Len(pipe' \o writing) = 0
      BY <1>4, <1>5, <1>8, <1>9, <2>2
    <3> QED
      BY <1>8, <3>1, EmptySeq
  <2>4. pipe' = <<>> /\ writing = <<>>
    <3>1. Len(pipe') + Len(writing) = 0 /\ Len(pipe') \in Nat
      BY <1>5, <1>8, <2>3, Together, EmptySeq
    <3>2. Len(pipe') = 0 /\ Len(writing) = 0
      BY <1>5, <3>1
    <3> QED
      BY <1>5, <1>8, <3>2, EmptySeq
  <2>5. output' = text
    BY <1>6, <1>7, <2>3, ConcatEmptySeq
  <2>6. AtRest'
    BY <1>1, <1>2, <2>4, <2>5 DEF AtRest, Settled, Answering, text
  <2> QED
    BY <1>2, <1>13, <2>6 DEF InStep
<1>14. CASE ~ReadEnds(Chunk)
  <2>1. WritesWhole => writing = <<>> /\ (pipe' # <<>> => Len(output') % Buffer = 0)
    <3>1. pipe' # <<>> => CountRead # Len(pipe)
      BY <1>2, <1>4, <1>5, EmptySeq
    <3> QED
      BY <1>10, <1>11, <3>1
  <2>2. Answering'
    BY <1>1, <1>2, <1>7, <2>1 DEF Answering, text
  <2> QED
    BY <1>1, <1>2, <1>14, <2>2 DEF InStep
<1> QED
  BY <1>13, <1>14

\* A child that is gone has left the whole answer or nothing that could be counted.
LEMMA ReadEndStep == PipeTyped /\ Unrisky /\ InStep /\ ReadEnd => InStep'
<1> SUFFICES ASSUME PipeTyped, Unrisky, InStep, ReadEnd PROVE InStep'
  OBVIOUS
<1>1. /\ pipePc = "read" /\ ~childAlive /\ pipe = <<>> /\ pipePc' = "idle"
      /\ UNCHANGED <<childAlive, commands, writing, pipe, sent, output, expected>>
  BY DEF ReadEnd
<1>2. CASE Commanded
  BY <1>1, <1>2, NothingCounted DEF Commanded, Settled, AtRest, InStep
<1>3. CASE Answering
  <2> DEFINE text == expected[sent]
  <2>1. sent > 0 /\ sent \in 1 .. Len(expected)
    BY <1>1, <1>3 DEF InStep, Answering, PipeTyped
  <2>2. IsAnswer(text) /\ ~Risky(text)
    BY <2>1 DEF PipeTyped, Unrisky
  <2>3. /\ output \in Seq(Char) /\ writing \in Seq(Char) /\ Len(output) \in Nat /\ Len(writing) \in Nat
        /\ <<>> \o writing = writing
    BY LenProperties, ConcatEmptySeq DEF PipeTyped
  <2>4. text = output \o writing
    BY <1>1, <1>3, <2>3 DEF Answering
  <2> HIDE DEF text
  <2>5. CASE writing = <<>>
    <3>1. output = text
      BY <2>3, <2>4, <2>5, ConcatEmptySeq
    <3> QED
      BY <1>1, <1>3, <2>1, <3>1 DEF Answering, Settled, AtRest, InStep, text
  <2>6. CASE output = <<>>
    BY <1>1, <2>6, NothingCounted DEF Settled, AtRest, InStep
  <2>7. CASE ~WritesWhole
    <3>1. Len(text) \in Nat /\ text[2].ends
      BY <2>2, LenProperties DEF IsAnswer
    <3>2. Len(text) <= 2
      <4>1. SUFFICES ASSUME Len(text) > 2 PROVE FALSE
        BY <3>1
      <4>2. 2 \in 1 .. Len(text) - 1
        BY <3>1, <4>1
      <4> QED
        BY <2>2, <2>7, <3>1, <4>2 DEF Risky
    <3>3. Len(output) < 3
      <4>1. Len(text) = Len(output) + Len(writing)
        BY <2>3, <2>4, Together
      <4> QED
        BY <2>3, <3>2, <4>1
    <3>4. Counted(output) = NoCount
      BY <3>3 DEF Counted
    <3> QED
      BY <1>1, <3>4 DEF Settled, AtRest, InStep
  <2> QED
    BY <1>3, <2>5, <2>6, <2>7 DEF Answering
<1> QED
  BY <1>1, <1>2, <1>3 DEF InStep

\* The answers that were expected stay.
LEMMA RiskStays == PipeTyped /\ [PipeNext]_pipeVars /\ Unrisky' => Unrisky
<1> SUFFICES ASSUME PipeTyped, [PipeNext]_pipeVars, Unrisky' PROVE Unrisky
  OBVIOUS
<1>1. CASE Take
  <2>1. PICK text : expected' = Append(expected, text)
    BY <1>1 DEF Take
  <2>2. expected \in Seq(Seq(Char)) /\ Len(expected) \in Nat
    BY LenProperties DEF PipeTyped
  <2>3. \A n \in 1 .. Len(expected) : n \in 1 .. Len(expected') /\ expected'[n] = expected[n]
    BY <2>1, <2>2, AppendProperties
  <2> QED
    BY <2>3 DEF Unrisky, Risky
<1>2. CASE ~Take
  <2>1. expected' = expected
    BY <1>2 DEF PipeNext, pipeVars, Write, Die, Startup, Send, Read, ReadEnd, Quit
  <2> QED
    BY <2>1 DEF Unrisky, Risky
<1> QED
  BY <1>1, <1>2

LEMMA PipeStep == PipeInv /\ [PipeNext]_pipeVars => PipeInv'
<1> SUFFICES ASSUME PipeInv, [PipeNext]_pipeVars, Unrisky' PROVE InStep'
  BY PipeTypedStep DEF PipeInv
<1>1. PipeTyped /\ PipeTyped' /\ Unrisky /\ InStep
  BY PipeTypedStep, RiskStays DEF PipeInv
<1>2. CASE Take \/ Write \/ Startup \/ Read \/ ReadEnd
  BY <1>1, <1>2, TakeStep, WriteStep, StartupStep, ReadStep, ReadEndStep
<1>3. CASE Die
  BY <1>1, <1>3 DEF Die, InStep, AtRest, Settled, Commanded, Answering
<1>4. CASE Send
  <2>1. CASE childAlive
    <3>1. /\ sent' = sent + 1 /\ output' = <<>> /\ commands' = Append(commands, sent') /\ pipePc' = "read"
          /\ UNCHANGED <<childAlive, writing, pipe, expected>>
      BY <1>4, <2>1 DEF Send
    <3>2. /\ sent \in Nat /\ pipe = <<>> /\ commands = <<>> /\ writing = <<>> /\ Len(expected) = sent
      BY <1>1, <1>4, <2>1 DEF Send, InStep, PipeTyped, AtRest
    <3>3. commands' = <<sent'>>
      BY <3>1, <3>2
    <3>4. Commanded' /\ sent' > 0
      BY <3>1, <3>2, <3>3 DEF Commanded
    <3> QED
      BY <3>1, <3>4 DEF InStep
  <2>2. CASE ~childAlive
    BY <1>4, <2>2 DEF Send, InStep
  <2> QED
    BY <2>1, <2>2
<1>5. CASE Quit
  BY <1>5 DEF Quit, InStep
<1>6. CASE UNCHANGED pipeVars
  BY <1>1, <1>6 DEF pipeVars, InStep, StartingUp, AtRest, Settled, Commanded, Answering
<1> QED
  BY <1>2, <1>3, <1>4, <1>5, <1>6 DEF PipeNext

\* Until UmbraConnector is given an answer with a line that may end a read before the last
\* one, what is read for a command is its whole answer unless the child died over it, and a
\* count that is taken from it is the right one: whatever the results and their lines, the
\* length of the buffer, and in however many parts the child writes.
THEOREM AnswersAreWhole == PipeSpec => []AnswersMatch
<1>1. PipeInv => AnswersMatch
  <2> SUFFICES ASSUME PipeInv, Unrisky, pipePc = "idle", sent > 0
               PROVE  OutputWhole /\ CountRight
    BY DEF AnswersMatch, OutputWhole, CountRight, Answered, Unrisky
  <2>1. AtRest
    BY DEF PipeInv, InStep
  <2>2. OutputWhole
    BY <2>1 DEF AtRest, OutputWhole
  <2>3. ASSUME Counted(output) # NoCount
        PROVE  Len(expected) = sent /\ Counted(output) = CountOf(sent)
    <3>1. Len(expected) = sent /\ output = expected[sent]
      BY <2>1, <2>3 DEF AtRest, Settled
    <3>2. Counted(output) = Len(output) - 3
      BY <2>3 DEF Counted
    <3> QED
      BY <3>1, <3>2 DEF CountOf
  <2> QED
    BY <2>2, <2>3 DEF CountRight
<1> QED
  BY <1>1, PipeStarts, PipeStep, PTL DEF PipeSpec

=============================================================================
