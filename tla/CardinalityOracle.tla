------------------------- MODULE CardinalityOracle -------------------------
(***************************************************************************)
(* factDB/opt/oracle: what the optimizer knows of the sizes of joins.      *)
(* CardinalityOracleDB looks a count query up in a table of estimates that *)
(* is kept on disk and, if it is not there, has it executed by a server:   *)
(* the execution mode is set for the time of the request, the connection   *)
(* is opened for it and closed after it.  A failed count may be repeated.  *)
(*                                                                         *)
(* A signature is the text of a count query.  It names tables and not the  *)
(* data set, so that one signature has a size per schema.  The server, its *)
(* failures and the end of the process are the environment.                *)
(***************************************************************************)
EXTENDS Integers

CONSTANTS
  Schemas,      \* the values of schema.key
  Signatures,   \* the texts of count queries
  Size,         \* Schemas -> Signatures -> the true size
  IntMax        \* the largest int, 2^31 - 1; size_t has twice as many bits as an int

ASSUME IntMaxAssumption == IntMax \in Nat

VARIABLES
  genEstimates, \* opt.oracle.genEstimates, the same for all processes
  up,        \* whether the server can be connected to
  stored,    \* table Estimates: signature, its primary key -> [schema, estimate]
  schemaKey, \* schema.key
  mode,      \* codegen.executionMode
  outerMode, \* the mode that the setter of the request restores
  created,   \* whether the static connector of the process exists
  connected, \* connection # nullptr
  pc,        \* "idle", "send" in the loop of estimateSignature, "store" behind it
  request,   \* the signature asked for, and whether its count failed
  retrieved, \* retrievedSize
  answer     \* of the last request: a size or NoAnswer

given == <<genEstimates, up>>
connector == <<created, connected>>
vars == <<given, stored, schemaKey, mode, outerMode, connector, pc, request, retrieved, answer>>

IntValues == 2 * (IntMax + 1)
SizeValues == IntValues * IntValues
Failed == SizeValues - 1
NoAnswer == -1
OuterModes == {"Materialized", "CodegenFactorized"}

\* std::atoi reads an int; the count is a size_t.
AsInt(n) == ((n + IntMax + 1) % IntValues) - (IntMax + 1)
AsSize(i) == i % SizeValues

Init ==
  /\ genEstimates \in BOOLEAN
  /\ up \in BOOLEAN
  /\ stored = [s \in {} |-> 0]
  /\ schemaKey \in Schemas
  /\ mode \in OuterModes
  /\ outerMode = mode
  /\ created = FALSE
  /\ connected = FALSE
  /\ pc = "idle"
  /\ request \in [signature : Signatures, failed : {FALSE}]
  /\ retrieved = 0
  /\ answer = NoAnswer

-----------------------------------------------------------------------------
(* estimateSignature.                                                      *)

\* getEstimate: the row of the signature, if it is of the current schema.
FoundAny(s) == s \in DOMAIN stored
Found(s) == s \in DOMAIN stored /\ stored[s].schema = schemaKey

Remember(s) ==
  /\ pc = "idle"
  /\ Found(s)
  /\ request' = [signature |-> s, failed |-> FALSE]
  /\ answer' = stored[s].estimate
  /\ UNCHANGED <<given, stored, schemaKey, mode, outerMode, connector, pc, retrieved>>

Ask(s) ==
  /\ pc = "idle"
  /\ ~Found(s)
  /\ request' = [signature |-> s, failed |-> FALSE]
  /\ answer' = NoAnswer
  /\ outerMode' = mode
  /\ mode' = "UmbraServer"
  /\ pc' = "send"
  /\ UNCHANGED <<given, stored, schemaKey, connector, retrieved>>

\* The setter of the mode ends with the function, by whatever way it is left.
KeepMode == mode' = mode
RestoreMode == mode' = outerMode

\* A RuntimeException is no std::runtime_error: it leaves the function, and
\* the statement skips the query.
Abandon ==
  /\ pc' = "idle"
  /\ answer' = NoAnswer
  /\ RestoreMode
  /\ UNCHANGED <<given, stored, schemaKey, outerMode, request, retrieved>>

\* A std::runtime_error is caught in the loop.
RetryNever == FALSE
RetryFailed == genEstimates
CountFailed ==
  /\ request' = [request EXCEPT !.failed = TRUE]
  /\ retrieved' = Failed
  /\ pc' = IF RetryFailed THEN "send" ELSE "store"
  /\ UNCHANGED <<given, stored, schemaKey, mode, outerMode, answer>>

-----------------------------------------------------------------------------
(* UmbraServerConnector.                                                   *)

\* The constructor tries once.
CreateConnector ==
  /\ pc = "send"
  /\ ~created
  /\ created' = TRUE
  /\ connected' = up
  /\ UNCHANGED <<given, stored, schemaKey, mode, outerMode, pc, request, retrieved, answer>>

OnlyConstructorOpens == FALSE
NeedsConnection == created /\ ~connected

Open ==
  /\ pc = "send"
  /\ NeedsConnection
  /\ up
  /\ connected' = TRUE
  /\ UNCHANGED <<given, stored, schemaKey, mode, outerMode, created, pc, request, retrieved, answer>>

\* With genEstimates it sleeps and tries again, which changes nothing.
NeverGivesUp == FALSE
GivesUp == ~genEstimates
OpenFails ==
  /\ pc = "send"
  /\ NeedsConnection
  /\ ~up
  /\ GivesUp
  /\ Abandon
  /\ UNCHANGED connector

\* Whatever comes of the query, the connection is closed.
KeepConnection == connected' = connected
CloseConnection == connected' = FALSE

Count ==
  /\ pc = "send"
  /\ connected
  /\ up
  /\ retrieved' = AsSize(AsInt(Size[schemaKey][request.signature]))
  /\ pc' = "store"
  /\ CloseConnection
  /\ UNCHANGED <<given, stored, schemaKey, mode, outerMode, created, request, answer>>

QueryFails ==
  /\ pc = "send"
  /\ connected
  /\ CountFailed
  /\ CloseConnection
  /\ UNCHANGED created

\* No memory, on either side.
QueryAborted ==
  /\ pc = "send"
  /\ connected
  /\ Abandon
  /\ CloseConnection
  /\ UNCHANGED created

-----------------------------------------------------------------------------
\* INSERT OR REPLACE: the row of another schema gives way.
Store ==
  /\ pc = "store"
  /\ stored' = [s \in DOMAIN stored \cup {request.signature} |->
                  IF s = request.signature THEN [schema |-> schemaKey, estimate |-> retrieved]
                                           ELSE stored[s]]
  /\ answer' = retrieved
  /\ pc' = "idle"
  /\ RestoreMode
  /\ UNCHANGED <<given, schemaKey, outerMode, connector, request, retrieved>>

\* Between queries the benchmark sets schema.key and the mode.
Configure ==
  /\ pc = "idle"
  /\ schemaKey' \in Schemas
  /\ mode' \in OuterModes
  /\ outerMode' = mode'
  /\ answer' = NoAnswer
  /\ UNCHANGED <<given, stored, connector, pc, request, retrieved>>

\* The process ends, be it that the insertion throws, and another one starts.
Restart ==
  /\ schemaKey' \in Schemas
  /\ mode' \in OuterModes
  /\ outerMode' = mode'
  /\ created' = FALSE
  /\ connected' = FALSE
  /\ pc' = "idle"
  /\ retrieved' = 0
  /\ answer' = NoAnswer
  /\ UNCHANGED <<given, stored, request>>

ServerChanges ==
  /\ up' = ~up
  /\ UNCHANGED <<genEstimates, stored, schemaKey, mode, outerMode, connector, pc, request, retrieved, answer>>

Work == CreateConnector \/ Open \/ OpenFails \/ Count \/ QueryFails \/ QueryAborted \/ Store

Next ==
  \/ \E s \in Signatures : Remember(s) \/ Ask(s)
  \/ Work \/ Configure \/ Restart \/ ServerChanges

\* The thread goes on with its request.  Without genEstimates nothing is asked of
\* the server; with it, a server that is up again and again counts at last.
Fairness ==
  /\ WF_vars(Work)
  /\ SF_vars(genEstimates /\ Open) /\ SF_vars(genEstimates /\ Count)

Spec == Init /\ [][Next]_vars /\ Fairness

-----------------------------------------------------------------------------
\* No count is too large for an int.
SizesFit == Size \in [Schemas -> [Signatures -> 0 .. IntMax]]

\* A request is answered with the size of its query in the data set of the
\* schema, or with the mark of a failed count, whatever was stored before
\* for other schemas and by processes before.
AnswerOfSchema == answer \in {NoAnswer, Failed, Size[schemaKey][request.signature]}

\* With genEstimates no failure is ever written down or answered.
OnlySizesStored == \A s \in DOMAIN stored : stored[s].estimate = Size[stored[s].schema][s]

\* However a request ends, the statement goes on in the mode it had, and the
\* connection is closed.
NothingLeft ==
  /\ pc = "idle" => mode \in OuterModes /\ mode = outerMode
  /\ pc \in {"idle", "store"} => ~connected

AnswersExact == AnswerOfSchema /\ NothingLeft /\ (genEstimates => OnlySizesStored)

\* Every request ends, with genEstimates if the server always comes back.
RequestEnds == (genEstimates => []<>up) => (pc = "send" ~> pc = "idle")
=============================================================================
