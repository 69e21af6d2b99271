SPECIFICATION FairSpec
CONSTANTS
  Calls = {c1}
  MaxRetries = 3
  Edge = TRUE
  KeepsRefusals = FALSE
  Absent = absent
INVARIANTS TypeOK TransportInv
PROPERTIES OnceSpec EveryCallEnds
CHECK_DEADLOCK FALSE
