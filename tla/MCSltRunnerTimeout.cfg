\* The --timeout help text against the per-batch deadline.
CONSTANTS
  NumTests <- MCNumTests
  BatchSize <- MCBatchSize
  Jobs <- MCJobs
  Timeout <- MCTimeout
SPECIFICATION Spec
CHECK_DEADLOCK FALSE
INVARIANT TimeoutBoundsRun
