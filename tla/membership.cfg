SPECIFICATION FairSpec
CONSTANTS
  Replica = {a, b}
  Unlisted = Unlisted
  SuspectAfter = 2
  UnhealthyAfter = 3
  RemovalAfter = 4
  MaxLag = 1
  MaxTroubles = 1
  MaxFaults = 1
INVARIANTS TypeOK KnowsAddress StoppedNotHealthy
PROPERTIES Relisted Bootstraps RecoveryFollows
CHECK_DEADLOCK FALSE
