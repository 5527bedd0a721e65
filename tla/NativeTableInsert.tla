------------------------- MODULE NativeTableInsert -------------------------
(***************************************************************************)
(* NativeTableInsertExec (datasources/src/native/insert.rs): INSERT into a *)
(* native (delta) table, one statement per session, all into one table.   *)
(*                                                                         *)
(* execute(partition) refuses any partition but 0 and otherwise returns a *)
(* stream::once.  Polling it awaits the WriteBuilder, which drains every  *)
(* partition of the input plan, writes the rows and commits them to the  *)
(* delta log; only then is the input's output_rows metric read and       *)
(* returned as the one count row.  Rows are produced one at a time and    *)
(* the metric is shared by every execution of the same input plan.        *)
(* The delta log commit itself (deltalake) is one atomic step that may    *)
(* fail; appends of different sessions do not conflict.                   *)
(***************************************************************************)
EXTENDS Naturals, Functions

CONSTANTS
  Sessions,     \* sessions, each running one INSERT (model values)
  Partitions,   \* partition indices a caller may request of execute()
  InParts,      \* partitions of the input plan
  MaxRows,      \* most rows one input partition produces
  InputMetrics, \* whether an input plan's metrics() reports output_rows
  None          \* model value: no count emitted

ASSUME /\ 0 \in Partitions /\ Partitions \subseteq Nat
       /\ InputMetrics \subseteq BOOLEAN /\ InputMetrics # {}

VARIABLES
  input,        \* input[s]: rows per input partition, and whether metrics exist
  stream,       \* stream[s][p]: state of the stream execute(p) returned
  drained,      \* drained[s][p][ip]: rows input partition ip produced for stream p
  count,        \* count[s][p]: the count the stream's row carries
  tableRows,    \* rows committed to the table
  committed     \* committed[s]: rows committed by s's statement (ghost)

vars == <<input, stream, drained, count, tableRows, committed>>

StreamState == {"none", "error", "open", "writing", "row", "failed", "dropped"}

InputRows(s) == FoldFunction(+, 0, input[s].rows)

Drained(s, p) == FoldFunction(+, 0, drained[s][p])

TypeOK ==
  /\ input \in [Sessions -> [rows : [InParts -> 0..MaxRows], metrics : InputMetrics]]
  /\ stream \in [Sessions -> [Partitions -> StreamState]]
  /\ drained \in [Sessions -> [Partitions -> [InParts -> 0..MaxRows]]]
  /\ count \in [Sessions -> [Partitions -> Nat \cup {None}]]
  /\ tableRows \in Nat
  /\ committed \in [Sessions -> Nat]

Init ==
  /\ input \in [Sessions -> [rows : [InParts -> 0..MaxRows], metrics : InputMetrics]]
  /\ stream = [s \in Sessions |-> [p \in Partitions |-> "none"]]
  /\ drained = [s \in Sessions |-> [p \in Partitions |-> [ip \in InParts |-> 0]]]
  /\ count = [s \in Sessions |-> [p \in Partitions |-> None]]
  /\ tableRows = 0
  /\ committed = [s \in Sessions |-> 0]

(* Mutant: execute() without the partition check.                        *)
ExecuteAnyPartition(s, p) ==
  /\ stream[s][p] = "none"
  /\ stream' = [stream EXCEPT ![s][p] = "open"]
  /\ UNCHANGED <<input, drained, count, tableRows, committed>>

(***************************************************************************)
(* execute(partition): an error for any partition but 0, else the stream  *)
(* wrapping the not-yet-started write.                                     *)
(***************************************************************************)
Execute(s, p) ==
  /\ stream[s][p] = "none"
  /\ stream' = [stream EXCEPT ![s][p] = IF p # 0 THEN "error" ELSE "open"]
  /\ UNCHANGED <<input, drained, count, tableRows, committed>>

(* The first poll starts awaiting the WriteBuilder.                       *)
StartWrite(s, p) ==
  /\ stream[s][p] = "open"
  /\ stream' = [stream EXCEPT ![s][p] = "writing"]
  /\ UNCHANGED <<input, drained, count, tableRows, committed>>

(* Mutant: the input keeps producing past its last row.                   *)
ProduceRowUnbounded(s, p, ip) ==
  /\ stream[s][p] = "writing"
  /\ drained' = [drained EXCEPT ![s][p][ip] = @ + 1]
  /\ UNCHANGED <<input, stream, count, tableRows, committed>>

(* Mutant: each row is written to the table as the builder pulls it,     *)
(* before the commit.                                                       *)
ProduceRowWritesThrough(s, p, ip) ==
  /\ stream[s][p] = "writing"
  /\ drained[s][p][ip] < input[s].rows[ip]
  /\ drained' = [drained EXCEPT ![s][p][ip] = @ + 1]
  /\ tableRows' = tableRows + 1
  /\ UNCHANGED <<input, stream, count, committed>>

(* The WriteBuilder pulls one row from input partition ip; the input's    *)
(* output_rows metric counts it.                                           *)
ProduceRow(s, p, ip) ==
  /\ stream[s][p] = "writing"
  /\ drained[s][p][ip] < input[s].rows[ip]
  /\ drained' = [drained EXCEPT ![s][p][ip] = @ + 1]
  /\ UNCHANGED <<input, stream, count, tableRows, committed>>

(* Mutant: the count is the metric of input partition 0 only.             *)
RowCountPartitionZero(s) ==
  IF input[s].metrics THEN FoldFunction(+, 0, [p \in Partitions |-> drained[s][p][0]])
  ELSE 0

(***************************************************************************)
(* input.metrics().map(|m| m.output_rows().unwrap_or_default())            *)
(*   .unwrap_or_default(): the rows every execution of the input plan has *)
(* produced so far, or 0 when the plan keeps no metrics.                  *)
(***************************************************************************)
RowCount(s) ==
  IF input[s].metrics THEN FoldFunction(+, 0, [p \in Partitions |-> Drained(s, p)])
  ELSE 0

(***************************************************************************)
(* builder.await returns once every input partition is drained and the    *)
(* delta log commit is done; then the count is read and the row emitted. *)
(* A failed write or commit surfaces as the stream's error, with no row.  *)
(***************************************************************************)
WriteCommit(s, p) ==
  /\ stream[s][p] = "writing"
  /\ \A ip \in InParts : drained[s][p][ip] = input[s].rows[ip]
  /\ stream' = [stream EXCEPT ![s][p] = "row"]
  /\ count' = [count EXCEPT ![s][p] = RowCount(s)]
  /\ tableRows' = tableRows + Drained(s, p)
  /\ committed' = [committed EXCEPT ![s] = @ + Drained(s, p)]
  /\ UNCHANGED <<input, drained>>

WriteFails(s, p) ==
  /\ stream[s][p] = "writing"
  /\ stream' = [stream EXCEPT ![s][p] = "failed"]
  /\ UNCHANGED <<input, drained, count, tableRows, committed>>

(* The caller drops the stream before it finished; nothing is committed.  *)
DropStream(s, p) ==
  /\ stream[s][p] \in {"open", "writing"}
  /\ stream' = [stream EXCEPT ![s][p] = "dropped"]
  /\ UNCHANGED <<input, drained, count, tableRows, committed>>

Next ==
  \E s \in Sessions, p \in Partitions :
    \/ Execute(s, p)
    \/ StartWrite(s, p)
    \/ \E ip \in InParts : ProduceRow(s, p, ip)
    \/ WriteCommit(s, p)
    \/ WriteFails(s, p)
    \/ DropStream(s, p)

Spec == Init /\ [][Next]_vars

(***************************************************************************)
(* Properties                                                              *)
(***************************************************************************)

(***************************************************************************)
(* Refinement mapping to the atomic insert: the statement's rows are its  *)
(* input's rows; its result is what the stream of partition 0 ended with *)
(* (the count row, or "failed" for an error or a dropped stream).         *)
(***************************************************************************)
StatementResult(s) ==
  CASE stream[s][0] = "row"                   -> [status |-> "done", count |-> count[s][0]]
    [] stream[s][0] \in {"failed", "dropped"} -> [status |-> "failed", count |-> 0]
    [] OTHER                                  -> [status |-> "pending", count |-> 0]

Atomic == INSTANCE InsertAtomic WITH
            rows   <- [s \in Sessions |-> InputRows(s)],
            result <- [s \in Sessions |-> StatementResult(s)]

(* Spec section 4.4: the insert operator implements the atomic insert.    *)
(* The table changes only in the step that emits the count row, by        *)
(* exactly the statement's rows, and never on an error or a dropped       *)
(* stream; draining the input partitions is invisible.                    *)
InsertIsAtomic == Atomic!Spec

(* Spec sections 4.4 and 8: the count row an insert emits equals the rows *)
(* its input produced and it wrote, zero included, however the input's   *)
(* partitions interleave (read of the input's output_rows metric after    *)
(* builder.await).                                                          *)
InsertCountMatchesRows ==
  \A s \in Sessions, p \in Partitions :
    stream[s][p] = "row" => count[s][p] = InputRows(s)

(* The table holds each statement's rows at most once, whatever           *)
(* partitions the caller executes (execute's partition check).            *)
RowsWrittenOnce ==
  \A s \in Sessions : committed[s] <= InputRows(s)

=============================================================================
