------------------------ MODULE MCStatementExecutor ------------------------
(* Model-checking instance of StatementExecutor: three sessions, two table *)
(* names, scripts that make the sessions' DDL and writes collide.         *)
EXTENDS StatementExecutor

CONSTANTS s1, s2, s3, t1, t2

S(k, t) == [kind |-> k, table |-> t, new |-> None]
Alter(t, n) == [kind |-> "alter", table |-> t, new |-> n]

MCSessions == {s1, s2, s3}
MCTables == {t1, t2}
MCMaxVersion == 9
MCInitialTables == SUBSET MCTables

(* Scripts of up to three statements: a writer that drops, a creator     *)
(* that then queries, and a script with the ALTER TABLE and a SET.       *)
MCScripts == { <<S("insert", t1), S("drop", t1), S("select", t1)>>,
               <<S("create", t1), S("insert", t1), S("select", t2)>>,
               <<Alter(t1, t2), S("set", t1), S("drop", t2)>> }

(* The spec's ALTER TABLE scenario: one session, t1 exists, no other writer. *)
AlterScenarioSessions == {s1}
AlterScenarioScripts == { <<Alter(t1, t2)>> }
AlterScenarioTables == { {t1} }

=============================================================================
