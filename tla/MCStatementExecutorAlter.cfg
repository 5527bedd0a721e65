CONSTANTS
  s1 = s1
  s2 = s2
  s3 = s3
  t1 = t1
  t2 = t2
  None = None
  Sessions <- AlterScenarioSessions
  Tables <- MCTables
  Scripts <- AlterScenarioScripts
  MaxVersion <- MCMaxVersion
  InitialTables <- AlterScenarioTables

SPECIFICATION Spec
CHECK_DEADLOCK FALSE

INVARIANT AlterTableSucceeds
