----------------------------- MODULE MCSltRunner -----------------------------
(***************************************************************************)
(* SltRunner for TLC: seven tests in batches of three (so a full batch   *)
(* is followed by another full batch and then by a batch of one test), a *)
(* pool of two jobs (so the for loop waits for a slot, and the drain loop *)
(* still has two results to collect) and a deadline two ticks after each *)
(* batch starts.                                                           *)
(***************************************************************************)
EXTENDS SltRunner

MCNumTests == 7
MCBatchSize == 3
MCJobs == 2
MCTimeout == 2

=============================================================================
