------------------------------ MODULE SltRunner ------------------------------
(***************************************************************************)
(* The sqllogictest runner of cli/src/args/slt.rs: run_tests_batched       *)
(* splits the tests into batches of batch_size and runs the batches one   *)
(* after the other; run_tests spawns one tokio task per test of a batch,  *)
(* at most `jobs` at a time (u8::MAX when jobs = 0), each task sending    *)
(* its (name, result) on an unbounded mpsc channel.  The main task waits  *)
(* on the channel for a free slot and then drains it, every receive       *)
(* bounded by one deadline, now + timeout, taken when the batch starts.   *)
(* A failed batch, or a receive past the deadline, ends the run; the      *)
(* runtime is then dropped, cancelling the tasks still running.           *)
(*                                                                         *)
(* Time is a counter that advances while the main task is running a       *)
(* batch.  A test passes, fails, or never finishes (it may hang).         *)
(***************************************************************************)
EXTENDS Naturals, Sequences, FiniteSets

CONSTANTS
  NumTests,     \* number of tests selected by collect_tests (never 0)
  BatchSize,    \* batch_size = num_cpus::get() (at least 1)
  Jobs,         \* the --jobs argument (u8); 0 means "as many as possible"
  Timeout       \* the --timeout argument, in clock ticks

ASSUME /\ NumTests \in Nat \ {0}
       /\ BatchSize \in Nat \ {0}
       /\ Jobs \in 0..255
       /\ Timeout \in Nat \ {0}

Tests == 1..NumTests
NumBatches == (NumTests + BatchSize - 1) \div BatchSize

(* The k-th batch: tests.drain(0..min(batch_size, tests.len())), repeated. *)
Batch(k) == {t \in Tests : (k - 1) * BatchSize < t /\ t <= k * BatchSize}

(* let mut total_jobs = if self.jobs > 0 { self.jobs } else { u8::MAX };  *)
JobLimit == IF Jobs > 0 THEN Jobs ELSE 255

VARIABLES
  now,          \* the clock
  deadline,     \* timeout_at of the running batch
  bi,           \* index of the running batch
  pc,           \* main task: "setup", "spawn", "drain", "finished", "failed", "exited", "aborted"
  totalJobs,    \* total_jobs: free job slots
  chan,         \* messages sent on jobs_tx and not yet received
  task,         \* task[t]: "idle", "running", "done" (sent its result)
  got,          \* got[t]: the result received for t, or "none"
  rxOpen,       \* jobs_rx still alive (dropped when run_tests returns)
  outcome       \* what run_tests_batched returned: "none", "ok", "failures", "timeout", "setup"

vars == <<now, deadline, bi, pc, totalJobs, chan, task, got, rxOpen, outcome>>

Results == {"pass", "fail"}

TypeOK ==
  /\ now \in Nat /\ deadline \in Nat
  /\ bi \in 1..NumBatches
  /\ pc \in {"setup", "spawn", "drain", "finished", "failed", "exited", "aborted"}
  /\ totalJobs \in 0..255
  /\ chan \in Seq(Tests \X Results)
  /\ task \in [Tests -> {"idle", "running", "done"}]
  /\ got \in [Tests -> Results \cup {"none"}]
  /\ rxOpen \in BOOLEAN
  /\ outcome \in {"none", "ok", "failures", "timeout", "setup"}

(* run_tests_batched starts; the first batch's run_tests will find a      *)
(* fresh deadline and a full pool.                                         *)
Init ==
  /\ now = 0
  /\ deadline = Timeout
  /\ bi = 1
  /\ pc = "setup"
  /\ totalJobs = JobLimit
  /\ chan = <<>>
  /\ task = [t \in Tests |-> "idle"]
  /\ got = [t \in Tests |-> "none"]
  /\ rxOpen = TRUE
  /\ outcome = "none"

(***************************************************************************)
(* The start of run_tests_batched: the metastore's temp dir, then one      *)
(* client config per test, either parsed from --connection-string or for  *)
(* an embedded server it binds, builds, connects and spawns (serve), each  *)
(* test with a fresh database name.  Any of these steps may fail; `?`      *)
(* returns the error before a test is run.                                 *)
(***************************************************************************)
Setup(ok) ==
  /\ pc = "setup"
  /\ IF ok THEN pc' = "spawn" /\ UNCHANGED outcome
     ELSE pc' = "failed" /\ outcome' = "setup"
  /\ UNCHANGED <<now, deadline, bi, totalJobs, chan, task, got, rxOpen>>

(* The next test of the batch the for loop has not spawned yet.           *)
Unspawned == {t \in Batch(bi) : task[t] = "idle"}
NextTest == CHOOSE t \in Unspawned : \A u \in Unspawned : t <= u

SpawnNext ==
  /\ pc = "spawn" /\ totalJobs > 0
  /\ totalJobs' = totalJobs - 1
  /\ task' = [task EXCEPT ![NextTest] = "running"]
  /\ pc' = IF Unspawned = {NextTest} THEN "drain" ELSE "spawn"
  /\ UNCHANGED <<now, deadline, bi, chan, got, rxOpen, outcome>>

(* if total_jobs == 0: wait for one result and free its slot.             *)
RecvSlot ==
  /\ pc = "spawn" /\ totalJobs = 0
  /\ chan # <<>>
  /\ got' = [got EXCEPT ![Head(chan)[1]] = Head(chan)[2]]
  /\ chan' = Tail(chan)
  /\ totalJobs' = totalJobs + 1
  /\ UNCHANGED <<now, deadline, bi, pc, task, rxOpen, outcome>>

(* results.len(): the results of the batch received so far.              *)
Received(g) == Cardinality({t \in Batch(bi) : g[t] # "none"})

(* Mutant: the drain loop stops one result short.                         *)
BatchDoneOneShort(g) == Received(g) >= Cardinality(Batch(bi)) - 1

(* Received everything?  results.len() == num_tests.                      *)
BatchDone(g) == Received(g) = Cardinality(Batch(bi))

(* Mutant: the batch loop runs one batch past the last.                  *)
MoreBatchesOffByOne == bi <= NumBatches

(* for batch in batches: a batch is left after this one.                  *)
MoreBatches == bi < NumBatches

(***************************************************************************)
(* The batch is over: report.  Any error is "Test failures", returned by  *)
(* `?` in run_tests_batched; otherwise the next batch's run_tests starts  *)
(* with a fresh deadline and pool, or the run is over.  Either way the    *)
(* batch's jobs_rx is gone.                                                *)
(***************************************************************************)
EndBatch(g) ==
  CASE \E t \in Batch(bi) : g[t] = "fail" ->
         /\ pc' = "failed" /\ outcome' = "failures" /\ rxOpen' = FALSE
         /\ UNCHANGED <<now, deadline, bi, totalJobs>>
    [] MoreBatches ->
         /\ bi' = bi + 1 /\ pc' = "spawn" /\ totalJobs' = JobLimit
         /\ deadline' = now + Timeout
         /\ UNCHANGED <<now, rxOpen, outcome>>
    [] OTHER ->
         /\ pc' = "finished" /\ outcome' = "ok" /\ rxOpen' = FALSE
         /\ UNCHANGED <<now, deadline, bi, totalJobs>>

(***************************************************************************)
(* while let Some(res) = recv(..)?: take one result; once every test of  *)
(* the batch has answered, close the channel and end the batch.  main     *)
(* still holds jobs_tx, so recv never yields None: the loop ends only by *)
(* count or by the deadline.                                               *)
(***************************************************************************)
Drain ==
  LET g == [got EXCEPT ![Head(chan)[1]] = Head(chan)[2]]
  IN /\ pc = "drain" /\ chan # <<>>
     /\ got' = g /\ chan' = Tail(chan)
     /\ IF BatchDone(g) THEN EndBatch(g)
        ELSE UNCHANGED <<now, deadline, bi, pc, totalJobs, rxOpen, outcome>>
     /\ UNCHANGED task

(* Mutant: recv awaits rx.recv() with no deadline.                        *)
RecvTimeoutNever == FALSE

(* tokio::time::timeout_at: a receive with an empty channel at or past    *)
(* the deadline is an Elapsed error; `?` returns it from run_tests and    *)
(* drops jobs_rx.                                                           *)
RecvTimeout ==
  /\ \/ pc = "drain"
     \/ pc = "spawn" /\ totalJobs = 0
  /\ chan = <<>>
  /\ now >= deadline
  /\ pc' = "failed" /\ outcome' = "timeout" /\ rxOpen' = FALSE
  /\ UNCHANGED <<now, deadline, bi, totalJobs, chan, task, got>>

(* A test task finishes and sends (name, result); tx.send(..).unwrap()    *)
(* panics once jobs_rx is gone, and the panic hook aborts the process.   *)
TaskFinish(t, r) ==
  /\ task[t] = "running"
  /\ pc \notin {"exited", "aborted"}
  /\ task' = [task EXCEPT ![t] = "done"]
  /\ IF rxOpen
     THEN /\ chan' = Append(chan, <<t, r>>) /\ UNCHANGED pc
     ELSE /\ pc' = "aborted" /\ UNCHANGED chan
  /\ UNCHANGED <<now, deadline, bi, totalJobs, got, rxOpen, outcome>>

(* The error reaches block_on and the runtime is dropped.                 *)
Shutdown ==
  /\ pc = "failed"
  /\ pc' = "exited"
  /\ UNCHANGED <<now, deadline, bi, totalJobs, chan, task, got, rxOpen, outcome>>

(* Time passes while a batch runs, up to its deadline.                    *)
Tick ==
  /\ pc \in {"spawn", "drain"}
  /\ now < deadline
  /\ now' = now + 1
  /\ UNCHANGED <<deadline, bi, pc, totalJobs, chan, task, got, rxOpen, outcome>>

Next ==
  \/ \E ok \in BOOLEAN : Setup(ok)
  \/ SpawnNext \/ RecvSlot \/ Drain \/ RecvTimeout \/ Shutdown \/ Tick
  \/ \E t \in Tests, r \in Results : TaskFinish(t, r)

(* The tokio runtime polls the main task and fires its timer; a test task *)
(* gets no fairness: a test may hang.                                      *)
Fairness ==
  /\ WF_vars(\E ok \in BOOLEAN : Setup(ok))
  /\ WF_vars(SpawnNext) /\ WF_vars(RecvSlot) /\ WF_vars(Drain)
  /\ WF_vars(RecvTimeout) /\ WF_vars(Shutdown) /\ WF_vars(Tick)

Spec == Init /\ [][Next]_vars /\ Fairness

(***************************************************************************)
(* Properties                                                              *)
(***************************************************************************)

SuccessMeansAllPassed ==
  outcome = "ok" => \A t \in Tests : task[t] = "done" /\ got[t] = "pass"

(* The run always ends, even when a test hangs forever: it passes, exits  *)
(* with an error, or aborts on the panic of a late send.  Only the        *)
(* timeout_at deadline bounds the receive loops.                           *)
Terminates == <>(pc \in {"finished", "exited", "aborted"})

(* The --timeout help text: "Timeout (exit) after this number of          *)
(* seconds": the run is over no later than `timeout` after it started     *)
(* (timeout_at is computed anew by each batch's run_tests).                *)
TimeoutBoundsRun == now <= Timeout


=============================================================================
