-------------------------- MODULE ScriptExecution ---------------------------
(***************************************************************************)
(* factDB/SQLExecution and the cache of plans.  A script is read line by   *)
(* line: a line with a backslash is a command, a line of comment may set   *)
(* the size that the next query is expected to have, everything else is    *)
(* text, which is kept until a line ends with ";" or a command follows.    *)
(* A query takes its name from the setting of that name and looks under    *)
(* name and algorithm for a plan that was made before for its schema;      *)
(* without one it makes one, or is given up if that is disabled.           *)
(*                                                                         *)
(* A line "loose" is one whose statement ends before the line does, a line *)
(* "part" one of a statement that goes on.  An error of the parser ends    *)
(* the process.                                                            *)
(***************************************************************************)
EXTENDS Integers, Sequences, FiniteSets, SequencesExt

CONSTANTS
  Scripts,    \* the scripts: functions from files to sequences of lines
  Main,       \* the file that is executed first
  Schemas,    \* values of schema.key
  Algorithms, \* values of optimizer.algorithm
  NoName,     \* the name of a query if none is set
  MaxProcesses \* bound: processes

Commands == {"set", "include", "quit"}

\* Lines have a kind and what they say.  The main file may include the others, which
\* include nothing.
ASSUME ScriptsAssumption ==
  \A s \in Scripts :
    /\ Main \in DOMAIN s
    /\ \A f \in DOMAIN s :
         /\ Len(s[f]) \in Nat /\ DOMAIN s[f] = 1 .. Len(s[f])
         /\ \A n \in DOMAIN s[f] :
              /\ s[f][n].kind \in Commands \union {"end", "loose", "part", "size"}
              /\ s[f][n].kind = "include" => f = Main /\ s[f][n].of \in DOMAIN s \ {Main}

VARIABLES
  script,   \* the files, which do not change
  process,  \* schema.key, and optimizer.algorithm, optimizer.cache and opt.reorderPlans
  settings, \* queryname and resultsize
  frames,   \* the calls of executeSQL: file, line, and the stream of text
  stop,     \* the state of the executor
  scriptPc, \* "read", "parse", "optimize", "execute" or "over"
  then,     \* the line that is handled after the text is parsed
  plan,     \* the plan of the statement
  plans,    \* the table CachedPlans: from its keys to the schema and the plan
  starts,   \* how many processes there were
  ran       \* history: the queries of this process, as they were run

reader == <<settings, frames, stop, scriptPc, then, plan>>
scriptVars == <<script, process, reader, plans, starts, ran>>

Frame(file) == [file |-> file, line |-> 1, statements |-> <<>>, open |-> FALSE]
Top == Last(frames)
SetTop(line, statements, open) ==
  frames' = Append(Front(frames), [file |-> Top.file, line |-> line, statements |-> statements,
                                   open |-> open])
EndOfFile == [kind |-> "eof", of |-> 0]
NoPlan == <<>>
NoSize == 0

Begin(p) ==
  /\ process' = p
  /\ settings' = [queryname |-> NoName, resultsize |-> NoSize]
  /\ frames' = <<Frame(Main)>>
  /\ stop' = FALSE
  /\ scriptPc' = "read"
  /\ then' = EndOfFile
  /\ plan' = NoPlan
  /\ ran' = <<>>

ProcessSettings ==
  [schema : Schemas, algorithm : Algorithms, cache : BOOLEAN, reorderPlans : BOOLEAN]

ScriptInit ==
  /\ script \in Scripts
  /\ process \in ProcessSettings
  /\ settings = [queryname |-> NoName, resultsize |-> NoSize]
  /\ frames = <<Frame(Main)>>
  /\ stop = FALSE
  /\ scriptPc = "read"
  /\ then = EndOfFile
  /\ plan = NoPlan
  /\ plans = [k \in {} |-> NoPlan]
  /\ starts = 1
  /\ ran = <<>>

-----------------------------------------------------------------------------
\* A statement is parsed when its line ends it, a loose one with the next command or line that does.
TakeLine(line) ==
  CASE line.kind \in Commands ->
         /\ scriptPc' = "parse" /\ then' = line /\ UNCHANGED settings
         /\ SetTop(Top.line + 1, Top.statements, Top.open)
    [] line.kind = "end" ->
         /\ scriptPc' = "parse" /\ then' = line /\ UNCHANGED settings
         /\ SetTop(Top.line + 1, Append(Top.statements, line.of), FALSE)
    [] line.kind = "loose" ->
         /\ UNCHANGED <<scriptPc, then, settings>>
         /\ SetTop(Top.line + 1, Append(Top.statements, line.of), FALSE)
    [] line.kind = "part" ->
         UNCHANGED <<scriptPc, then, settings>> /\ SetTop(Top.line + 1, Top.statements, TRUE)
    [] line.kind = "size" ->
         /\ settings' = [settings EXCEPT !.resultsize = line.of]
         /\ UNCHANGED <<scriptPc, then>> /\ SetTop(Top.line + 1, Top.statements, Top.open)

\* A line that is read; the one that sets the name runs what precedes it under the old name.
SetFirst(line) ==
  IF line.kind = "set"
  THEN /\ settings' = [settings EXCEPT !.queryname = line.of]
       /\ scriptPc' = "parse" /\ then' = line /\ SetTop(Top.line + 1, Top.statements, Top.open)
  ELSE TakeLine(line)
HandleLine(line) == TakeLine(line)

ReadLine ==
  /\ scriptPc = "read" /\ ~stop /\ Top.line <= Len(script[Top.file])
  /\ HandleLine(script[Top.file][Top.line])
  /\ UNCHANGED <<script, process, stop, plan, plans, starts, ran>>

\* At the end of the file, or after \q, the text that is left is parsed.
ReadEnd ==
  /\ scriptPc = "read" /\ (stop \/ Top.line > Len(script[Top.file]))
  /\ scriptPc' = "parse" /\ then' = EndOfFile
  /\ UNCHANGED <<script, process, settings, frames, stop, plan, plans, starts, ran>>

\* All text is parsed before the first statement of it runs.
ParseError ==
  /\ scriptPc = "parse" /\ Top.open
  /\ scriptPc' = "over"
  /\ UNCHANGED <<script, process, settings, frames, stop, then, plan, plans, starts, ran>>

RunStatement ==
  /\ scriptPc = "parse" /\ ~Top.open /\ Top.statements # <<>>
  /\ scriptPc' = "optimize"
  /\ UNCHANGED <<script, process, settings, frames, stop, then, plan, plans, starts, ran>>

\* handleBackslashCommand, or the end of a call of executeSQL.
Parsed ==
  /\ scriptPc = "parse" /\ ~Top.open /\ Top.statements = <<>>
  /\ settings' = IF then.kind = "set" THEN [settings EXCEPT !.queryname = then.of] ELSE settings
  /\ frames' = CASE then.kind = "include" -> Append(frames, Frame(then.of))
                 [] then.kind = "eof" -> Front(frames)
                 [] OTHER -> frames
  /\ stop' = (stop \/ then.kind = "quit")
  /\ scriptPc' = IF frames' = <<>> THEN "over" ELSE "read"
  /\ UNCHANGED <<script, process, then, plan, plans, starts, ran>>

-----------------------------------------------------------------------------
\* The query, whose meaning depends on the data set.
Current == [text |-> Head(Top.statements), schema |-> process.schema]

\* The primary key of the table CachedPlans, which has one row for all data sets.
Key == <<settings.queryname, process.algorithm>>

FindsAnySchema == Key \in DOMAIN plans
FindsPlan == process.cache /\ Key \in DOMAIN plans /\ plans[Key].schema = process.schema

LookupCachedPlan ==
  /\ scriptPc = "optimize" /\ FindsPlan
  /\ plan' = plans[Key].plan
  /\ scriptPc' = "execute"
  /\ UNCHANGED <<script, process, settings, frames, stop, then, plans, starts, ran>>

\* The new row replaces that of its key, be it of another data set.
GeneratePlan ==
  LET row == [schema |-> process.schema, plan |-> plan']
  IN  /\ scriptPc = "optimize" /\ ~FindsPlan /\ process.reorderPlans
      /\ plan' = [query |-> Current, algorithm |-> process.algorithm]
      /\ plans' = [k \in DOMAIN plans \union {Key} |-> IF k = Key THEN row ELSE plans[k]]
      /\ scriptPc' = "execute"
      /\ UNCHANGED <<script, process, settings, frames, stop, then, starts, ran>>

Done(p) ==
  /\ ran' = Append(ran, [query |-> Head(Top.statements), queryname |-> settings.queryname,
                         resultsize |-> settings.resultsize, plan |-> p])
  /\ SetTop(Top.line, Tail(Top.statements), Top.open)
  /\ scriptPc' = "parse"
  /\ plan' = NoPlan
  /\ UNCHANGED <<script, process, settings, stop, then, plans, starts>>

\* DoNotGeneratePlan: the statement is skipped.
SkipQuery == scriptPc = "optimize" /\ ~FindsPlan /\ ~process.reorderPlans /\ Done(NoPlan)

ExecutePlan == scriptPc = "execute" /\ Done(plan)

\* The process ends at any step, and another one executes the script.
StartAgain ==
  /\ starts < MaxProcesses
  /\ starts' = starts + 1
  /\ \E p \in ProcessSettings : Begin(p)
  /\ UNCHANGED <<script, plans>>

Statement == RunStatement \/ LookupCachedPlan \/ GeneratePlan \/ SkipQuery \/ ExecutePlan
ScriptNext == ReadLine \/ ReadEnd \/ ParseError \/ Parsed \/ Statement \/ StartAgain
ScriptSpec == ScriptInit /\ [][ScriptNext]_scriptVars

-----------------------------------------------------------------------------
\* The places of the text: the lines of the main file, <<n, 0>>, each followed by those of
\* the file that it includes, <<n, m>>.
Included(n) == IF script[Main][n].kind = "include" THEN script[script[Main][n].of] ELSE <<>>
Places ==
  UNION {{<<n, m>> : m \in {0} \union DOMAIN Included(n)} : n \in DOMAIN script[Main]}
LineAt(p) == IF p[2] = 0 THEN script[Main][p[1]] ELSE Included(p[1])[p[2]]
Before(p, q) == p[1] < q[1] \/ (p[1] = q[1] /\ p[2] < q[2])

\* Those that are read, up to \q, and the queries among them, by their number.
Read == {p \in Places : \A q \in Places : Before(q, p) => LineAt(q).kind # "quit"}
Queries == {p \in Read : LineAt(p).kind \in {"end", "loose"}}
NumberOf(p) == Cardinality({q \in Queries : q = p \/ Before(q, p)})

\* What the text says before a place: the last of the lines of a kind.
SayingBefore(kind, p) == {q \in Read : Before(q, p) /\ LineAt(q).kind = kind}
Latest(places) == CHOOSE p \in places : \A q \in places : q = p \/ Before(q, p)
Said(kind, p, default) ==
  IF SayingBefore(kind, p) = {} THEN default ELSE LineAt(Latest(SayingBefore(kind, p))).of

\* The contract of the cache: a name is that of one query.
NamesUnique ==
  \A p, q \in Queries :
    Said("set", p, NoName) = Said("set", q, NoName) => LineAt(p).of = LineAt(q).of

\* Queries run in the order of the text, included files and \q considered, each with the name
\* that the text gives it last; one that ends its line also with the size given last.
AsWritten ==
  \A i \in DOMAIN ran : \E p \in Queries :
    /\ NumberOf(p) = i
    /\ ran[i].query = LineAt(p).of
    /\ ran[i].queryname = Said("set", p, NoName)
    /\ LineAt(p).kind = "end" => ran[i].resultsize = Said("size", p, NoSize)

\* The plan that a query runs with, from whichever process, is one of this query over this data,
\* by the algorithm that is set, if names are unique.
PlanOfQuery ==
  \A i \in DOMAIN ran :
    ran[i].plan # NoPlan /\ NamesUnique =>
      ran[i].plan = [query |-> [text |-> ran[i].query, schema |-> process.schema],
                     algorithm |-> process.algorithm]
=============================================================================
