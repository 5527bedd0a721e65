CONSTANTS
  s1 = s1
  s2 = s2
  s3 = s3
  t1 = t1
  t2 = t2
  None = None
  Sessions <- MCSessions
  Tables <- MCTables
  Scripts <- MCScripts
  MaxVersion <- MCMaxVersion
  InitialTables <- MCInitialTables

SPECIFICATION Spec
\* The executor stops once every script is exhausted: execute_next returns None.
CHECK_DEADLOCK FALSE

INVARIANT ResultsFollowScript
INVARIANT EachStatementAutocommits
