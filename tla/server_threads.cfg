SPECIFICATION Spec
CONSTANTS
  Pool = 2
  Reads = {r1, r2}
  LocalWrites = {l1}
  RemoteWrites = {w1}
  MaxTimeouts = 1
  Infers = {i1}
  Streams = {s1}
  Probes = {p1}
  MaxTokens = 1
  MaxErrors = 2
INVARIANTS
  ServersTypeOK DoneIsWhole
PROPERTIES
  CallsEnd RequestsEnd
\* The requests come once.
CHECK_DEADLOCK FALSE
