CONSTANTS
  s1 = s1
  s2 = s2
  t1 = t1
  t2 = t2
  t3 = t3
  None = None
  Sessions <- MCSessions
  Tables <- MCTables
  Partitions <- MCPartitions
  MaxVersion <- MCMaxVersion

SPECIFICATION Spec
SYMMETRY Symmetry

INVARIANT TypeOK
INVARIANT NoLostUpdate
INVARIANT OutcomeMatchesCatalog
