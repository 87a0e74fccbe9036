----------------------------- MODULE MCStatements -----------------------------
(***************************************************************************)
(* What becomes of statements: the cache of compiled queries, a session    *)
(* with its relations, and scripts.  One of them at a time, so that their  *)
(* states add up and do not multiply.                                      *)
(*                                                                         *)
(* Cache: one process after the other, two texts, five queries and four    *)
(* times: a file can be written again after the end of a process, before   *)
(* or after its library and in the same tick.                              *)
(*                                                                         *)
(* Session: two relations and two files, without ".tbl" files.  A COPY may *)
(* name the other file, and a query may find one relation loaded and the   *)
(* other not.  A third relation can be created, and used from the next     *)
(* process on.                                                             *)
(*                                                                         *)
(* Tool: genTblFiles runs twice beside a session with one relation, and    *)
(* may end in the middle.                                                  *)
(*                                                                         *)
(* Script: every main file of three lines, and three files that it may     *)
(* include: one that names and runs a query, one that gives a size and     *)
(* ends with a statement inside a line, one that stops everything.         *)
(* Three processes, so that a plan of one data set is replaced by one of   *)
(* the other and asked for again.                                          *)
(***************************************************************************)
EXTENDS QueryCache, Session, ScriptExecution

VARIABLE part  \* "cache", "session", "tool" or "script"

MCFirstNames == <<"r", "s">>

Line(kind, of) == [kind |-> kind, of |-> of]
Lines ==
  {Line("set", 1), Line("set", 2), Line("size", 1), Line("end", 1), Line("end", 2),
   Line("loose", 1), Line("part", 0), Line("include", "more"), Line("quit", 0)}
More == {<<Line("set", 2), Line("end", 2)>>, <<Line("size", 2), Line("loose", 2)>>,
         <<Line("end", 1), Line("quit", 0), Line("end", 2)>>}
AllScripts ==
  {[f \in {"main", "more"} |-> IF f = "main" THEN main ELSE more] :
     main \in [1 .. 3 -> Lines], more \in More}

\* The parts that are not chosen stay in one state.
NoSession == csv = [f \in Files |-> 0] /\ SessionInit
NoScript ==
  /\ script = CHOOSE s \in AllScripts : TRUE
  /\ process = [schema |-> 1, algorithm |-> 1, cache |-> TRUE, reorderPlans |-> TRUE]
  /\ ScriptInit

MCInit ==
  /\ Init
  /\ \/ part = "cache" /\ NoSession /\ NoScript
     \/ part = "session" /\ SessionInit /\ NoScript
     \/ part = "tool" /\ SessionInit /\ NoScript
     \/ part = "script" /\ NoSession /\ ScriptInit

\* Bound: beside the tool, one process copies to the first relation, twice.
OneRelation ==
  schemas' = schemas /\ used'.starts = 1 /\ used'.copies <= 2 /\ filepaths'[2] = NoFile

MCNext ==
  /\ UNCHANGED part
  /\ \/ part = "cache" /\ Next /\ UNCHANGED <<sessionVars, scriptVars>>
     \/ part = "session" /\ SessionNext /\ tool' = tool /\ UNCHANGED <<vars, scriptVars>>
     \/ part = "tool" /\ SessionNext /\ OneRelation /\ UNCHANGED <<vars, scriptVars>>
     \/ part = "script" /\ ScriptNext /\ UNCHANGED <<vars, sessionVars>>

MCSpec == MCInit /\ [][MCNext]_<<part, vars, sessionVars, scriptVars>>
=============================================================================
