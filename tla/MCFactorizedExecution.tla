----------------------- MODULE MCFactorizedExecution -----------------------
(* The plans over up to MaxScans relations, in the order of their leaves.     *)
(* A relation has a column "f" for conditions with relations to its right,    *)
(* one "k" for conditions with relations to its left, and a payload "p".  A   *)
(* join has one condition, or two over different pairs of relations; the      *)
(* first relation of the small plans may have a selection, over its payload.  *)
EXTENDS FactorizedExecution
CONSTANTS MaxScans, MaxEstimated

MCScan(r) == Scan(r, {r} \X {"f", "k", "p"})
MCLeaf(r) == {MCScan(r)} \cup (IF r = 1 THEN {Select(MCScan(r), {<<r, "p">>})} ELSE {})

MCColumns(op, c) == {iu \in IUs(op) : iu[2] = c}
MCConditions(l, r) ==
  {s \in SUBSET (MCColumns(l, "f") \X MCColumns(r, "k")) : Cardinality(s) \in {1, 2}}

RECURSIVE MCPlans(_, _, _)
MCPlans(from, to, types) ==
  IF from = to THEN MCLeaf(from)
  ELSE UNION {UNION {{Join(l, r, c, mode, type) :
                        c \in MCConditions(l, r),
                        mode \in {"TopInsert", "BottomInsert"},
                        type \in types}
                     : l \in MCPlans(from, cut, types), r \in MCPlans(cut + 1, to, types)}
              : cut \in from .. (to - 1)}

\* Semi joins only in the plans that are estimated before, too.
MCSmallPlans == UNION {MCPlans(1, n, {"Inner", "RightSemi"}) : n \in 1 .. MaxEstimated}
MCLargePlans == UNION {MCPlans(1, n, {"Inner"}) : n \in MaxEstimated + 1 .. MaxScans}
MCAllPlans ==
  MCSmallPlans \cup {p \in MCLargePlans : \A op \in Operators(p) : op.kind # "Selection"}
MCEstimated == {op \in UNION {Operators(p) : p \in MCSmallPlans} : op.kind = "InnerJoin"}
\* Nothing (a Count), the payload of one relation, or those of the first ones.
MCOutputs == {{}, {<<1, "p">>}, {<<2, "p">>}, {<<MaxScans, "p">>}}
               \cup {{<<r, "p">> : r \in 1 .. n} : n \in 2 .. MaxScans}

-----------------------------------------------------------------------------
(* What is executed. *)

\* A row has its "f", "k" and "p".
MCRow(r, values) == [iu \in {r} \X {"f", "k", "p"} |->
                       values[CHOOSE i \in 1 .. 3 : <<"f", "k", "p">>[i] = iu[2]]]
MCTable(r, rows) == [i \in DOMAIN rows |-> MCRow(r, rows[i])]

\* Of the last three, one has a row of default values first, one only behind another row
\* and one at the start of the second chunk.
MCRows == <<
  << <<1, 1, 1>>, <<2, 2, 2>> >>,
  << <<1, 1, 1>>, <<1, 2, 1>>, <<2, 1, 2>> >>,
  << <<1, 1, 1>>, <<1, 1, 1>> >>,
  << <<0, 0, 0>>, <<1, 0, 1>> >>,
  << <<0, 1, 1>>, <<0, 0, 0>> >>,
  << <<0, 1, 0>>, <<1, 0, 1>>, <<0, 0, 0>> >> >>

MCDatabase(shapes) == [r \in DOMAIN shapes |-> MCTable(r, MCRows[shapes[r]])]
MCDatabases == {MCDatabase(s) : s \in {<<1, 2, 3, 1>>, <<2, 1, 1, 1>>}}
MCDefaultDatabases == {MCDatabase(s) : s \in {<<4, 5, 5>>, <<5, 4, 5>>, <<6, 5, 5>>}}

\* Executed are all plans over up to three relations; without a selection and with one
\* condition per join also those over four, and those with semi joins of scans or of semi
\* joins (as they occur in the tests).  They count; over up to three relations they also
\* print all payloads, over three that of the second relation, and over four, with a top
\* insert at the end, those of the first three.  Plans over up to three relations also run
\* over tables with default values.
MCSimple(op) == op.kind # "Selection" /\ (op.kind = "InnerJoin" => Cardinality(op.conditions) = 1)
MCSemi(op) == op.kind = "InnerJoin" /\ op.type = "RightSemi"
MCSemiLeft(op) == MCSemi(op) => op.left.kind = "Scan" \/ MCSemi(op.left)
MCExecuted(top) ==
  LET ops == Operators(top.child)
      n == Cardinality({op \in ops : op.kind = "Scan"})
      semi == \E op \in ops : MCSemi(op)
      all == MCColumns(top.child, "p")
  IN  /\ n = 4 \/ semi => \A op \in ops : MCSimple(op) /\ MCSemiLeft(op)
      /\ top.output \in {{}} \cup (IF n <= 3 THEN {all} ELSE {})
                              \cup (IF n = 3 THEN {{<<2, "p">>}} ELSE {})
                              \cup (IF n = 4 /\ IsTopInsert(top.child)
                                    THEN {{<<r, "p">> : r \in 1 .. 3}} ELSE {})

\* Below the row of the first relation two lists: the second relation and the third
\* below it, and the fourth.  The first row of the second has no partner in the third.
MCOn(l, r, left, right, mode) == Join(l, MCScan(r), {<<left, <<r, right>>>>}, mode, "Inner")
MCForkPlans ==
  {MCOn(MCOn(MCOn(MCOn(MCScan(1), 2, <<1, "f">>, "k", "BottomInsert"),
                  3, <<2, "f">>, "k", "BottomInsert"),
             4, <<1, "p">>, "k", "BottomInsert"),
        5, <<1, "k">>, "k", "TopInsert")}
MCForkDatabases == {<<MCTable(1, << <<1, 1, 1>> >>),
                      MCTable(2, << <<1, 1, 1>>, <<2, 1, 2>> >>),
                      MCTable(3, << <<1, third, 1>> >>),
                      MCTable(4, << <<1, 1, 1>>, <<1, 1, 2>> >>),
                      MCTable(5, << <<1, 1, 1>> >>)>> : third \in {1, 2}}
MCForkOutputs == {{<<r, "p">> : r \in 3 .. 4}, {<<r, "p">> : r \in 1 .. 5}}

MCDatabasesOf(top) ==
  IF top.child \in MCForkPlans THEN (IF top.output \in MCForkOutputs THEN MCForkDatabases ELSE {})
  ELSE IF ~MCExecuted(top) THEN {}
  ELSE IF Cardinality({op \in Operators(top.child) : op.kind = "Scan"}) = 4 THEN MCDatabases
  ELSE MCDatabases \cup MCDefaultDatabases
MCPlansAndForks == MCAllPlans \cup MCForkPlans
MCOutputsAndForks == MCOutputs \cup MCForkOutputs
=============================================================================
