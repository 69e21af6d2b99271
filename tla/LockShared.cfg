SPECIFICATION Spec
CONSTANTS
  Attempts = {a1, a2}
  Callers = {c}
  Keys = {k1}
  TombCapacity = 1
  CancelByHolder = TRUE
  TombstoneOnRace = TRUE
  MaxWait = 2
  RetryInterval = 1
  DelayCap = 8
  NoLimit = NoLimit
  MaxRetries = NoLimit
  TransportRetries = 0
  Malformed = TRUE
  Abortable = TRUE
INVARIANTS
  TypeOK
  FencingOrder
  GeneratedHoldersExclude
  SafeTimeout
  SafeAbort
  OwnLease
  NothingBesideTheLock
PROPERTIES
  LostOnlyByExpiry
CHECK_DEADLOCK FALSE
