----------------------------- MODULE MCPlanning -----------------------------
(***************************************************************************)
(* The optimizer and where it gets the sizes of joins from, one part at a  *)
(* time, so that the states of the parts add up and do not multiply.       *)
(*                                                                         *)
(* Optimizer: queries over up to four small tables: a path, a double edge, *)
(* a cycle, a star and a column that three relations share, with and       *)
(* without filters.                                                        *)
(*                                                                         *)
(* Count: the oracle with its database, with and without                   *)
(* opt.oracle.genEstimates.  Two queries over two data sets of different   *)
(* sizes; none of them is too large for an int.                            *)
(*                                                                         *)
(* File: two oracles with one file.  Three estimates, of which the file    *)
(* holds none, one or two at first, or there is no file.                   *)
(*                                                                         *)
(* Pipe: the process behind two pipes, which writes an answer at once.     *)
(* Counts of one and two digits, the longer one in two reads; results of   *)
(* no number, and of two lines, with the first line's end inside a read    *)
(* and where a full buffer ends.                                           *)
(***************************************************************************)
EXTENDS Optimizer, CardinalityOracle, EstimateFile, UmbraConnector

CONSTANT Parts \* what is checked, of "optimizer", "count", "file" and "pipe"

VARIABLE part \* one of Parts

MCEqual(r, column, s) == Equal(<<r, column>>, <<s, column>>)
MCSelect(where, rows) == [n |-> Len(rows), where |-> where, sizes |-> rows]

MCPath == {MCEqual(1, "x", 2), MCEqual(2, "y", 3), MCEqual(3, "z", 4)}
MCDouble == {MCEqual(1, "x", 2), MCEqual(2, "x", 3), MCEqual(2, "y", 3), MCEqual(3, "y", 4)}
MCCycle == {MCEqual(1, "x", 2), MCEqual(2, "y", 3), MCEqual(3, "z", 4), MCEqual(4, "w", 1)}
MCStar == {MCEqual(1, "x", 2), MCEqual(1, "y", 3), MCEqual(1, "z", 4)}

MCSelects == {
  MCSelect({}, <<1>>),
  MCSelect(MCPath, <<1, 2, 2, 1>>),
  MCSelect(MCDouble, <<1, 1, 2, 2>>),
  MCSelect(MCCycle, <<2, 1, 1, 1>>),
  MCSelect(MCStar, <<2, 1, 1, 2>>),
  \* Every two of them are compared; with a filter, and one over two columns of a table.
  MCSelect({MCEqual(1, "x", 2), MCEqual(2, "x", 3), MCEqual(3, "x", 1),
            Other(<< <<2, "p">> >>), Equal(<<3, "p">>, <<3, "q">>)}, <<1, 1, 1>>),
  \* A filter over two tables.
  MCSelect({MCEqual(1, "x", 2), MCEqual(2, "y", 3), Other(<< <<1, "p">>, <<3, "p">> >>),
            Other(<< <<2, "p">> >>)}, <<1, 1, 1>>) }

\* A column that is compared with two columns of another table.
MCColumnSelects == {MCSelect({Equal(<<1, "x">>, <<2, "z">>), Equal(<<1, "y">>, <<2, "z">>),
                              MCEqual(2, "w", 3)}, <<1, 1, 1>>)}

MCValues == 1..2
MCAlgorithms == {"DPSize", "DPSizeLinear", "DPFactLeftDeep", "AnyPlan"}

MCSchemas == {"sf1", "sf10"}
MCSignatures == {"joinAB", "joinBC"}
MCSize == [k \in MCSchemas |-> [s \in MCSignatures |->
            (IF k = "sf10" THEN 4 ELSE 0) + (IF s = "joinBC" THEN 2 ELSE 1)]]

MCEstimates == 1 .. 3
MCAbsent == {0}
MCFirstFile == {MCAbsent, {}, {1}, {2, 3}}

MCResults == {<<FALSE, TRUE>>, <<FALSE, FALSE, TRUE>>, <<TRUE, TRUE>>,
              <<FALSE, FALSE, TRUE, FALSE, TRUE>>, <<FALSE, TRUE, FALSE, TRUE>>}

\* The parts that do not run are in one initial state.
MCInit ==
  /\ part \in Parts
  /\ OptimizerInit /\ Init /\ FileInit /\ PipeInit
  /\ part # "optimizer" =>
       select = (CHOOSE s \in Selects : TRUE) /\ algorithm = (CHOOSE a \in Algorithms : TRUE)
  /\ part # "count" =>
       ~genEstimates /\ up /\ schemaKey = "sf1" /\ mode = "Materialized" /\ request.signature = "joinAB"
  /\ part # "file" => file = {} /\ storing.oracle = (CHOOSE o \in Oracles : TRUE)
\* Two parts may be over: the connector is gone, or the process was terminated.
MCOver ==
  \/ part = "pipe" /\ pipePc \in {"exited", "killed"}
  \/ part = "file" /\ filePc = "terminated"
MCNext ==
  /\ UNCHANGED part
  /\ \/ part = "optimizer" /\ OptimizerNext /\ UNCHANGED <<vars, fileVars, pipeVars>>
     \/ part = "count" /\ Next /\ UNCHANGED <<allVars, fileVars, pipeVars>>
     \/ part = "file" /\ FileNext /\ UNCHANGED <<allVars, vars, pipeVars>>
     \/ part = "pipe" /\ PipeNext /\ UNCHANGED <<allVars, vars, fileVars>>
     \/ MCOver /\ UNCHANGED <<allVars, vars, fileVars, pipeVars>>

\* The fairness of CardinalityOracle.
MCSpec ==
  /\ MCInit /\ [][MCNext]_<<part, allVars, vars, fileVars, pipeVars>>
  /\ WF_vars(part = "count" /\ Work)
  /\ SF_vars(part = "count" /\ genEstimates /\ Open)
  /\ SF_vars(part = "count" /\ genEstimates /\ Count)
=============================================================================
