----------------------------- MODULE InsertAtomic -----------------------------
(***************************************************************************)
(* What an INSERT through a physical mutation executor promises (spec      *)
(* section 4.4): the operator body is one asynchronous unit of work that   *)
(* writes the statement's rows exactly once and then emits one count row; *)
(* no partial progress is observable, and a failure emits no row and      *)
(* leaves the table as it was.                                             *)
(*                                                                         *)
(* This is the ABSTRACT specification that NativeTableInsert implements:  *)
(* each statement either appends all its rows and reports their number in *)
(* one atomic step, or ends without any effect.                            *)
(***************************************************************************)
EXTENDS Naturals

CONSTANT Sessions   \* sessions, each running one INSERT (model values)

VARIABLES
  rows,         \* rows[s]: the rows statement s inserts
  tableRows,    \* rows in the table
  result        \* result[s]: [status: "pending", "failed", "done"; count: the count row]

vars == <<rows, tableRows, result>>

Init ==
  /\ rows \in [Sessions -> Nat]
  /\ tableRows = 0
  /\ result = [s \in Sessions |-> [status |-> "pending", count |-> 0]]

(* The write and its commit, and the count row, as one step.              *)
Insert(s) ==
  /\ result[s].status = "pending"
  /\ tableRows' = tableRows + rows[s]
  /\ result' = [result EXCEPT ![s] = [status |-> "done", count |-> rows[s]]]
  /\ UNCHANGED rows

(* The statement ends without writing: an error, or abandoned.            *)
Fail(s) ==
  /\ result[s].status = "pending"
  /\ result' = [result EXCEPT ![s].status = "failed"]
  /\ UNCHANGED <<rows, tableRows>>

Next == \E s \in Sessions : Insert(s) \/ Fail(s)

Spec == Init /\ [][Next]_vars

=============================================================================
