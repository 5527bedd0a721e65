CONSTANTS
  s1 = s1
  s2 = s2
  None = None
  Sessions <- MCSessions
  Partitions <- MCPartitions
  InParts <- MCInParts
  MaxRows <- MCMaxRows
  InputMetrics <- WithMetrics

SPECIFICATION Spec
\* Each session runs a single INSERT; the system stops when all are done.
CHECK_DEADLOCK FALSE

INVARIANT TypeOK
INVARIANT InsertCountMatchesRows
INVARIANT RowsWrittenOnce
PROPERTY InsertIsAtomic
