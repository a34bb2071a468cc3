SPECIFICATION Spec
CONSTANTS
  Null = Null
  Paths = {f1, f2, f3}
  Tasks = {t1, t2}
  max_cached_databases = 1
  ActiveFile = f1
  MaxLength = 2
  MaxAbandoned = 1
SYMMETRY SymmetricTasksAndFiles
INVARIANTS TypeOK ActiveCountIsExact ConnectionIsExclusive CommitsAreAcknowledged ConnectionsAreClean
PROPERTIES EvictionSparesUsed
