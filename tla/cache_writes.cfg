SPECIFICATION CacheSpec
CONSTANTS
  N = 2
  InitialHolder = 1
  Writer = {w1, w2}
  Handler = {g1, h1}
  Syncer = {}
  At1 = {w1, g1}
  At2 = {w2, h1}
  At3 = {}
  Home <- MCHome
  NoThread = NoThread
  MaxWrites = 2
  MaxReaders = 0
  MaxFailures = 1
  Lossy = FALSE
  MaxFinished = 2
  LateReplicates = FALSE
  MaxSnapshots = 0
  MaxSyncs = 0
  Key = {k1}
INVARIANTS CommittedVisible MutualExclusion QuiescentClean TokenInv
PROPERTY ImplementsMutex
CHECK_DEADLOCK FALSE
