------------------------- MODULE StatementExecutor -------------------------
(***************************************************************************)
(* The pull-based Executor of sqlexec/src/executor.rs, one per session,    *)
(* sessions running side by side against the shared catalog (module      *)
(* Catalog).                                                               *)
(*                                                                         *)
(* Executor::new parses the whole script into a queue (a parse error      *)
(* builds no executor, so every queue here is a successfully parsed       *)
(* script).  execute_next pops the front statement, plans it against the  *)
(* session's catalog view and dispatches on the plan variant to a session *)
(* operation.  A Query returns a stream that reads the table only when    *)
(* the caller polls it; being read-only it changes no state here.        *)
(*                                                                         *)
(* The planner and the session operations are not under src/; they are   *)
(* written from the spec (sections 3, 4.1, 6): DDL commits through        *)
(* mutate_and_commit with the session's view version; an insert fails if  *)
(* its table no longer exists.                                             *)
(***************************************************************************)
EXTENDS Naturals, Sequences, FiniteSets

CONSTANTS
  Sessions,     \* client sessions (model values)
  Tables,       \* table names (model values)
  Scripts,      \* the parsed scripts a session may be given
  InitialTables,\* the sets of tables the catalog may start with
  MaxVersion,   \* bound on the number of catalog commits
  None          \* model value: the rename target of non-ALTER statements

VARIABLES
  catalog,      \* the shared catalog [version, tables]
  cached,       \* cached[s]: session s's catalog view (session.ctx)
  script,       \* script[s]: the statements Executor::new parsed (ghost)
  queue,        \* queue[s]: Executor.statements, the unexecuted statements
  results       \* results[s]: <<statement, ExecutionResult tag>> per call

vars == <<catalog, cached, script, queue, results>>

C == INSTANCE Catalog

Kinds == {"create", "drop", "insert", "select", "alter", "set"}
Stmt == [kind : Kinds \ {"alter"}, table : Tables, new : {None}]
          \cup [kind : {"alter"}, table : Tables, new : Tables]

Tags == {"CreateTable", "DropTables", "WriteSuccess", "Query", "SetLocal", "Error"}

(* Every DDL statement of every script can commit without passing the     *)
(* version bound.                                                          *)
ASSUME /\ Scripts \subseteq Seq(Stmt)
       /\ InitialTables \subseteq SUBSET Tables
       /\ \A sc \in Scripts : Len(sc) * Cardinality(Sessions) <= MaxVersion

TypeOK ==
  /\ catalog \in C!CatalogState
  /\ cached \in [Sessions -> C!CatalogState]
  /\ script \in [Sessions -> Scripts]
  /\ queue \in [Sessions -> Seq(Stmt)]
  /\ results \in [Sessions -> Seq(Stmt \X Tags)]

Init ==
  /\ catalog \in [version : {0}, tables : InitialTables]
  /\ cached = [s \in Sessions |-> catalog]
  /\ script \in [Sessions -> Scripts]
  /\ queue = script
  /\ results = [s \in Sessions |-> <<>>]

(***************************************************************************)
(* SessionPlanner::plan_ast: the logical-plan variant of a statement, or  *)
(* a plan error when a table it reads or changes does not resolve in the  *)
(* session's view.  ALTER TABLE is a Ddl plan (spec section 2).           *)
(***************************************************************************)
PlanAst(stmt, view) ==
  IF stmt.kind \in {"drop", "insert", "select", "alter"} /\ stmt.table \notin view.tables
  THEN "PlanError"
  ELSE CASE stmt.kind = "create" -> "CreateTable"
         [] stmt.kind = "drop"   -> "DropTables"
         [] stmt.kind = "insert" -> "Insert"
         [] stmt.kind = "select" -> "Query"
         [] stmt.kind = "alter"  -> "AlterTable"
         [] stmt.kind = "set"    -> "SetConfiguration"

Record(s, stmt, tag) == results' = [results EXCEPT ![s] = Append(@, <<stmt, tag>>)]

(* Mutant: the arm drops the session operation's error (no `?`) and      *)
(* reports the DDL result whether or not it committed.                    *)
DdlArmIgnoreStatus(s, stmt, op, tag) ==
  LET r == C!MutateAndCommit(catalog, cached[s].version,
                             <<[op |-> op, name |-> stmt.table, new |-> "none"]>>)
  IN /\ catalog' = r.catalog
     /\ cached' = [cached EXCEPT ![s] = IF r.status = "ok" THEN r.catalog ELSE @]
     /\ Record(s, stmt, tag)

(* A DDL arm: session.create_table / drop_tables commits one mutation at  *)
(* the session's view version and, on success, sees the new catalog.      *)
DdlArm(s, stmt, op, tag) ==
  LET r == C!MutateAndCommit(catalog, cached[s].version,
                             <<[op |-> op, name |-> stmt.table, new |-> "none"]>>)
  IN /\ catalog' = r.catalog
     /\ cached' = [cached EXCEPT ![s] = IF r.status = "ok" THEN r.catalog ELSE @]
     /\ Record(s, stmt, IF r.status = "ok" THEN tag ELSE "Error")

(* session.insert: the write fails if the table is gone from the catalog *)
(* by the time it runs; rows are not tracked.                             *)
InsertArm(s, stmt) ==
  /\ Record(s, stmt, IF stmt.table \in catalog.tables THEN "WriteSuccess" ELSE "Error")
  /\ UNCHANGED <<catalog, cached>>

(* Query, set_configuration, a plan error and the unimplemented-plan arm  *)
(* leave the catalog alone and only produce a result (a Query's stream    *)
(* reads nothing until polled and changes nothing when it is).            *)
ResultOnly(s, stmt, tag) ==
  /\ Record(s, stmt, tag)
  /\ UNCHANGED <<catalog, cached>>

(***************************************************************************)
(* execute_statement: plan, then dispatch on the plan variant; a variant  *)
(* without an arm is an "unimplemented logical plan" error.               *)
(***************************************************************************)
ExecuteStatement(s, stmt) ==
  LET plan == PlanAst(stmt, cached[s])
  IN CASE plan = "CreateTable"      -> DdlArm(s, stmt, "create", "CreateTable")
       [] plan = "DropTables"       -> DdlArm(s, stmt, "drop", "DropTables")
       [] plan = "Insert"           -> InsertArm(s, stmt)
       [] plan = "Query"            -> ResultOnly(s, stmt, "Query")
       [] plan = "SetConfiguration" -> ResultOnly(s, stmt, "SetLocal")
       [] OTHER                     -> ResultOnly(s, stmt, "Error")

(* Mutant: the statement is only removed from the queue when it succeeds. *)
ExecuteNextKeepFailed(s) ==
  /\ queue[s] # <<>>
  /\ ExecuteStatement(s, Head(queue[s]))
  /\ queue' = IF results'[s][Len(results'[s])][2] = "Error"
              THEN queue ELSE [queue EXCEPT ![s] = Tail(@)]
  /\ UNCHANGED script

(***************************************************************************)
(* execute_next: None on an empty queue, else pop the front statement and *)
(* execute it; the statement is consumed whatever the outcome.            *)
(***************************************************************************)
ExecuteNext(s) ==
  /\ queue[s] # <<>>
  /\ queue' = [queue EXCEPT ![s] = Tail(@)]
  /\ ExecuteStatement(s, Head(queue[s]))
  /\ UNCHANGED script

(* The session refreshes its catalog view from the store (spec section 3). *)
RefreshCatalog(s) ==
  /\ cached[s] # catalog
  /\ cached' = [cached EXCEPT ![s] = catalog]
  /\ UNCHANGED <<catalog, script, queue, results>>

Next ==
  \E s \in Sessions :
    \/ ExecuteNext(s)
    \/ RefreshCatalog(s)

Spec == Init /\ [][Next]_vars

(***************************************************************************)
(* Properties                                                              *)
(***************************************************************************)

(* Each call of execute_next answers the next statement of the script, in *)
(* order, exactly once: a failing statement (plan error, conflict, a      *)
(* table dropped by another session, an unimplemented plan) is consumed  *)
(* and never re-run, and what remains queued is exactly the unanswered    *)
(* suffix of the script.                                                   *)
ResultsFollowScript ==
  \A s \in Sessions :
    /\ Len(results[s]) + Len(queue[s]) = Len(script[s])
    /\ \A i \in 1..Len(results[s]) : results[s][i][1] = script[s][i]
    /\ queue[s] = SubSeq(script[s], Len(results[s]) + 1, Len(script[s]))

(* No implicit transaction (executor.rs, "TODO: Implicit transaction"):   *)
(* every statement is its own commit.  The catalog has moved by exactly   *)
(* one version per DDL statement reported as done, over all sessions, so *)
(* a failed statement left no change behind and the statements of a       *)
(* script that succeeded before a later failure stay committed.           *)
EachStatementAutocommits ==
  catalog.version =
    Cardinality({<<s, i>> \in Sessions \X (1..MaxVersion) :
                   i <= Len(results[s]) /\ results[s][i][2] \in {"CreateTable", "DropTables"}})

(* Spec section 8: ALTER TABLE t RENAME TO t2 on a session with a current *)
(* view and no concurrent writer succeeds (and bumps the version).        *)
AlterTableSucceeds ==
  \A s \in Sessions : \A i \in 1..Len(results[s]) :
    results[s][i][1].kind = "alter" => results[s][i][2] # "Error"

=============================================================================
