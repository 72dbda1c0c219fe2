SPECIFICATION SerialSpec
CONSTANTS
  N = 2
  InitialHolder = 1
  Writer = {w1, w3}
  Handler = {g1,h1}
  Syncer = {}
  At1 = {w1, w3, g1}
  At2 = {h1}
  At3 = {}
  Home <- MCHome
  NoThread = NoThread
  MaxWrites = 2
  MaxReaders = 0
  MaxFailures = 0
  Lossy = FALSE
  MaxFinished = 2
SYMMETRY HandlerSymmetry
INVARIANTS NobodyStranded
CHECK_DEADLOCK FALSE
