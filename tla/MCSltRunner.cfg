\* The run of the sqllogictest runner: pool bound, success and termination.
CONSTANTS
  NumTests <- MCNumTests
  BatchSize <- MCBatchSize
  Jobs <- MCJobs
  Timeout <- MCTimeout
SPECIFICATION Spec
\* The runner really stops: after passing, after exiting, after aborting.
CHECK_DEADLOCK FALSE
INVARIANT TypeOK
 
INVARIANT SuccessMeansAllPassed
PROPERTY Terminates
