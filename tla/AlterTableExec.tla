--------------------------- MODULE AlterTableExec ---------------------------
(***************************************************************************)
(* ALTER TABLE ... RENAME executed as a physical mutation operator         *)
(* (sqlexec/src/planner/physical_plan/alter_table.rs), by several          *)
(* sessions at once, against the shared catalog of module Catalog.        *)
(*                                                                         *)
(* A session plans the statement against its cached catalog view: the    *)
(* plan (AlterTableExec) carries the version of that view.  The caller    *)
(* then executes partitions of the plan; execute() refuses any partition  *)
(* but 0 and otherwise returns a stream::once whose single poll calls     *)
(* mutate_and_commit with the plan's version.  Streams are polled or      *)
(* abandoned at the caller's pace, interleaved with the other sessions.  *)
(***************************************************************************)
EXTENDS Naturals, Sequences

CONSTANTS
  Sessions,     \* client sessions (model values)
  Tables,       \* table names (model values)
  Partitions,   \* partition indices a caller may request of execute()
  MaxVersion,   \* bound on the number of commits
  None          \* model value: no plan, no commit, no result yet

ASSUME 0 \in Partitions /\ Partitions \subseteq Nat

VARIABLES
  catalog,      \* the shared catalog [version, tables]
  cached,       \* cached[s]: the catalog as session s last saw it
  exec,         \* exec[s]: the statement session s is running
  applied,      \* applied[s]: times the current plan's mutation was committed
  lastCommit,   \* the most recent commit: who, what it was planned on, what it hit
  lastResult    \* lastResult[s]: outcome the caller saw for s's last statement

vars == <<catalog, cached, exec, applied, lastCommit, lastResult>>

C == INSTANCE Catalog

(* Stream states of one requested partition: not requested, refused by    *)
(* execute(), open (not yet polled), yielded the status row, yielded an    *)
(* error, dropped by the caller without polling.                          *)
StreamState == {"none", "error", "open", "row", "failed", "dropped"}

(* AlterTableExec {catalog_version, schema, name, operation}; the schema is *)
(* a single one here and the operation is a rename to new.  seen is the    *)
(* view the plan was made against (a ghost for NoLostUpdate).             *)
Plan == [catalog_version : 0..MaxVersion, name : Tables, new : Tables,
         seen : C!CatalogState]

Idle == [phase |-> "idle", plan |-> None, streams |-> [p \in Partitions |-> "none"]]

TypeOK ==
  /\ catalog \in C!CatalogState
  /\ cached \in [Sessions -> C!CatalogState]
  /\ exec \in [Sessions -> [phase : {"idle"}, plan : {None},
                            streams : [Partitions -> {"none"}]]
                      \cup [phase : {"planned"}, plan : Plan,
                            streams : [Partitions -> StreamState]]]
  /\ applied \in [Sessions -> Nat]
  /\ lastCommit \in {None} \cup [by : Sessions, seen : C!CatalogState,
                                 over : C!CatalogState]
  /\ lastResult \in [Sessions -> {None} \cup [ok : BOOLEAN, applied : Nat]]

Init ==
  /\ catalog \in [version : {0}, tables : SUBSET Tables]
  /\ cached = [s \in Sessions |-> catalog]
  /\ exec = [s \in Sessions |-> Idle]
  /\ applied = [s \in Sessions |-> 0]
  /\ lastCommit = None
  /\ lastResult = [s \in Sessions |-> None]

(***************************************************************************)
(* The session refreshes its cached catalog from the store (the session   *)
(* catalog view of spec section 3); only between statements.             *)
(***************************************************************************)
RefreshCatalog(s) ==
  /\ exec[s].phase = "idle"
  /\ cached' = [cached EXCEPT ![s] = catalog]
  /\ UNCHANGED <<catalog, exec, applied, lastCommit, lastResult>>

(***************************************************************************)
(* Planning builds AlterTableExec from the session's view: the table must *)
(* resolve in that view and the plan records the view's version.          *)
(***************************************************************************)
PlanAlterTable(s, t, n) ==
  /\ exec[s].phase = "idle"
  /\ t \in cached[s].tables
  /\ n # t
  /\ exec' = [exec EXCEPT ![s] =
               [phase   |-> "planned",
                plan    |-> [catalog_version |-> cached[s].version,
                             name |-> t, new |-> n, seen |-> cached[s]],
                streams |-> [p \in Partitions |-> "none"]]]
  /\ applied' = [applied EXCEPT ![s] = 0]
  /\ UNCHANGED <<catalog, cached, lastCommit, lastResult>>

(* Mutant: execute() without the partition check.                        *)
ExecuteAnyPartition(s, p) ==
  /\ exec[s].phase = "planned"
  /\ exec[s].streams[p] = "none"
  /\ exec' = [exec EXCEPT ![s].streams[p] = "open"]
  /\ UNCHANGED <<catalog, cached, applied, lastCommit, lastResult>>

(***************************************************************************)
(* execute(partition): any partition other than 0 is an error and yields  *)
(* no stream; partition 0 yields a stream that has not run anything yet.  *)
(***************************************************************************)
Execute(s, p) ==
  /\ exec[s].phase = "planned"
  /\ exec[s].streams[p] = "none"
  /\ exec' = [exec EXCEPT ![s].streams[p] = IF p # 0 THEN "error" ELSE "open"]
  /\ UNCHANGED <<catalog, cached, applied, lastCommit, lastResult>>

(* The commit step shared by alter_table_rename and its mutants: commit  *)
(* the rename with the given expected version and settle stream p.       *)
CommitRename(s, p, version) ==
  LET pl == exec[s].plan
      r  == C!MutateAndCommit(catalog, version,
                              <<[op |-> "rename", name |-> pl.name, new |-> pl.new]>>)
  IN /\ exec[s].streams[p] = "open"
     /\ catalog.version < MaxVersion
     /\ catalog' = r.catalog
     /\ exec' = [exec EXCEPT ![s].streams[p] = IF r.status = "ok" THEN "row" ELSE "failed"]
     /\ applied' = [applied EXCEPT ![s] = @ + IF r.status = "ok" THEN 1 ELSE 0]
     /\ lastCommit' = IF r.status = "ok"
                      THEN [by |-> s, seen |-> pl.seen, over |-> catalog]
                      ELSE lastCommit
     /\ UNCHANGED <<cached, lastResult>>

(* Mutant: the rename presents the catalog version current at execution, *)
(* not the one the plan was made against.                                *)
AlterTableRenameLatestVersion(s, p) == CommitRename(s, p, catalog.version)

(***************************************************************************)
(* Polling the stream runs alter_table_rename: mutate_and_commit with the *)
(* plan's catalog_version and one AlterTable mutation; on error the       *)
(* stream yields the error and no row, on success the status row.        *)
(***************************************************************************)
AlterTableRename(s, p) == CommitRename(s, p, exec[s].plan.catalog_version)

(* The caller drops an open stream without polling it.                    *)
DropStream(s, p) ==
  /\ exec[s].streams[p] = "open"
  /\ exec' = [exec EXCEPT ![s].streams[p] = "dropped"]
  /\ UNCHANGED <<catalog, cached, applied, lastCommit, lastResult>>

(* Mutant: the statement ends without resetting the session's plan.      *)
FinishStatementNoReset(s) ==
  /\ exec[s].phase = "planned"
  /\ \A p \in Partitions : exec[s].streams[p] # "open"
  /\ lastResult' = [lastResult EXCEPT ![s] =
                      [ok |-> exec[s].streams[0] = "row", applied |-> applied[s]]]
  /\ exec' = [exec EXCEPT ![s].phase = "idle"]
  /\ UNCHANGED <<catalog, cached, applied, lastCommit>>

(***************************************************************************)
(* The statement's result is what the operator's single output partition *)
(* yielded: success iff partition 0's stream produced its status row.     *)
(***************************************************************************)
FinishStatement(s) ==
  /\ exec[s].phase = "planned"
  /\ \A p \in Partitions : exec[s].streams[p] # "open"
  /\ lastResult' = [lastResult EXCEPT ![s] =
                      [ok |-> exec[s].streams[0] = "row", applied |-> applied[s]]]
  /\ exec' = [exec EXCEPT ![s] = Idle]
  /\ UNCHANGED <<catalog, cached, applied, lastCommit>>

Next ==
  \E s \in Sessions :
    \/ RefreshCatalog(s)
    \/ \E t, n \in Tables : PlanAlterTable(s, t, n)
    \/ \E p \in Partitions :
         \/ Execute(s, p)
         \/ AlterTableRename(s, p)
         \/ DropStream(s, p)
    \/ FinishStatement(s)

Spec == Init /\ [][Next]_vars

(***************************************************************************)
(* Properties                                                              *)
(***************************************************************************)

(* No lost update: every committed rename was applied to exactly the      *)
(* catalog (version and tables) its plan was made against, however the   *)
(* sessions' planning, execution and polling interleave.  This is what    *)
(* carrying catalog_version from planning into alter_table_rename buys.   *)
NoLostUpdate ==
  lastCommit # None => lastCommit.seen = lastCommit.over

(* The caller's outcome agrees with the catalog: a statement's mutation   *)
(* is committed at most once, and the caller is told success exactly when *)
(* it was committed, whichever partitions the caller executed and which   *)
(* streams it polled or dropped (execute's partition check, the          *)
(* stream::once body and its error mapping).                              *)
OutcomeMatchesCatalog ==
  \A s \in Sessions :
    /\ applied[s] <= 1
    /\ lastResult[s] # None => (lastResult[s].ok <=> lastResult[s].applied = 1)

=============================================================================
