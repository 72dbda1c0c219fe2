SPECIFICATION RestartSpec
CONSTANTS
  N = 3
  InitialHolder = 1
  Writer = {w1, w2, w3}
  Handler = {g1, g2, h1, k1}
  Syncer = {}
  At1 = {w1, g1, g2}
  At2 = {w2, h1}
  At3 = {w3, k1}
  Home <- MCHome
  NoThread = NoThread
  MaxWrites = 1
  MaxReaders = 0
  MaxFailures = 0
  Lossy = FALSE
  MaxFinished = 2
  MaxRestarts = 1
  Drained = TRUE
  Restartable = {2}
SYMMETRY HandlerSymmetry
INVARIANTS SingleToken
CHECK_DEADLOCK FALSE
