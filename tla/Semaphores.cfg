SPECIFICATION SemSpec
CONSTANTS
  Attempts = {a1, a2, a3}
  Callers = {}
  Keys = {k1}
  TombCapacity = 1
  CancelByHolder = FALSE
  TombstoneOnRace = TRUE
  MaxWait = 1
  RetryInterval = 1
  DelayCap = 8
  NoLimit = NoLimit
  MaxRetries = NoLimit
  TransportRetries = 0
  Malformed = FALSE
  Abortable = TRUE
  Limits = {1, 2}
INVARIANTS
  HandlesWithinLimit
  SafeAbort
  PermitSafetyInv
SYMMETRY Symmetry
CONSTRAINT Counting
CHECK_DEADLOCK FALSE
