SPECIFICATION CacheSpec
CONSTANTS
  N = 2
  InitialHolder = 1
  Writer = {w1, w2}
  Handler = {g1, h1}
  Syncer = {s2}
  At1 = {w1, g1}
  At2 = {w2, h1, s2}
  At3 = {}
  Home <- MCHome
  NoThread = NoThread
  MaxWrites = 1
  MaxReaders = 0
  MaxFailures = 1
  Lossy = FALSE
  MaxFinished = 2
  LateReplicates = TRUE
  MaxSnapshots = 1
  MaxSyncs = 1
  Key = {k1}
INVARIANTS CacheTypeOK TimestampsUnique OriginHasEntry AnswersTrue
PROPERTY NewerReplaces
CHECK_DEADLOCK FALSE
