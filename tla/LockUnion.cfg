SPECIFICATION Spec
CONSTANTS
  Attempts = {a1, a2}
  Callers = {}
  Keys = {k1, k2}
  TombCapacity = 2
  CancelByHolder = FALSE
  TombstoneOnRace = FALSE
  MaxWait = 1
  RetryInterval = 1
  DelayCap = 8
  NoLimit = NoLimit
  MaxRetries = NoLimit
  TransportRetries = 1
  Malformed = FALSE
  Abortable = TRUE
INVARIANTS
  FencingInv
  SafetyInv
SYMMETRY Symmetry
CHECK_DEADLOCK FALSE
