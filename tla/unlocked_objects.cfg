SPECIFICATION Spec
CONSTANTS
  Thread = {t1, t2}
  MaxCalls = 4
  MaxBegins = 7
  PeerTimes = {1, 2}
  Member = {m1, m2}
  Lister = {g1}
  RemovalAfter = 1
SYMMETRY ThreadSymmetry
INVARIANTS
  ObjectsTypeOK GoneIsOver OwnStampsIncrease LogOnce AloneSucceeds RegistersAgain
\* The calls on the fault controller and what the clock's threads begin are bounded.
CHECK_DEADLOCK FALSE
