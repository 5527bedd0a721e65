-------------------------- MODULE MCAlterTableExec --------------------------
(* Model-checking instance of AlterTableExec: two sessions, three table    *)
(* names, a caller that may request partitions 0 and 1.                   *)
EXTENDS AlterTableExec, TLC

CONSTANTS s1, s2, t1, t2, t3

MCSessions == {s1, s2}
MCTables == {t1, t2, t3}
MCPartitions == {0, 1}
MCMaxVersion == 3

Symmetry == Permutations(MCSessions) \cup Permutations(MCTables)

=============================================================================
