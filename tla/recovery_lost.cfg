SPECIFICATION FairSpec
CONSTANTS
  Replica = {a, b}
  Unlisted = Unlisted
  SuspectAfter = 2
  UnhealthyAfter = 3
  RemovalAfter = 4
  MaxLag = 1
  MaxTroubles = 0
  MaxFaults = 1
PROPERTY RecoveryHappens
CHECK_DEADLOCK FALSE
