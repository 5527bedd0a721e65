------------------------ MODULE MCNativeTableInsert ------------------------
(* Model-checking instance of NativeTableInsert: two sessions inserting   *)
(* into one table, inputs of two partitions of up to two rows each.      *)
EXTENDS NativeTableInsert

CONSTANTS s1, s2

MCSessions == {s1, s2}
OneSession == {s1}
MCPartitions == {0, 1}
MCInParts == {0, 1}
MCMaxRows == 2

(* Input plans that record output_rows (projections, filters, scans ...). *)
WithMetrics == {TRUE}
(* Any input plan, including one whose metrics() is None (the default of *)
(* ExecutionPlan::metrics, e.g. a VALUES list).                          *)
AnyInput == {TRUE, FALSE}

=============================================================================
