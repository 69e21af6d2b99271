SPECIFICATION FairSpec
CONSTANTS
  Attempts = {a1, a2}
  Callers = {}
  Keys = {k1}
  TombCapacity = 1
  CancelByHolder = FALSE
  TombstoneOnRace = TRUE
  MaxWait = 1
  RetryInterval = 1
  DelayCap = 8
  NoLimit = NoLimit
  MaxRetries = NoLimit
  TransportRetries = 0
  Malformed = FALSE
  Abortable = FALSE
PROPERTIES
  EveryWaitEnds
  AbandonedStateHeals
CHECK_DEADLOCK FALSE
