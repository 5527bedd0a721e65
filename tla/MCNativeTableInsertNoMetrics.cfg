CONSTANTS
  s1 = s1
  s2 = s2
  None = None
  Sessions <- OneSession
  Partitions <- MCPartitions
  InParts <- MCInParts
  MaxRows <- MCMaxRows
  InputMetrics <- AnyInput

SPECIFICATION Spec
\* Each session runs a single INSERT; the system stops when all are done.
CHECK_DEADLOCK FALSE

INVARIANT InsertCountMatchesRows
