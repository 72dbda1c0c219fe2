SPECIFICATION Spec
CONSTANTS
  N = 2
  InitialHolder = 1
  Writer = {w1, w2}
  Handler = {g1, g2, h1, h2}
  Syncer = {}
  At1 = {w1, g1, g2}
  At2 = {w2, h1, h2}
  At3 = {}
  Home <- MCHome
  NoThread = NoThread
  MaxWrites = 1
  MaxReaders = 0
  MaxFailures = 0
  Lossy = FALSE
  MaxFinished = 2
SYMMETRY HandlerSymmetry
INVARIANTS MutualExclusion
CHECK_DEADLOCK FALSE
