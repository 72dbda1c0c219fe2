SPECIFICATION GatewaySpec
CONSTANTS
  Replica = {a, b}
  Queries = {q1, q2}
  Writes = {w1}
  Arms = {f1}
  Nobody = Nobody
  MaxTimeouts = 1
  MaxFailures = 1
SYMMETRY Symmetry
INVARIANTS GatewayTypeOK  StoredOnce
CHECK_DEADLOCK FALSE
