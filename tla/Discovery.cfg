SPECIFICATION FairSpec
CONSTANTS
  MaxRevision = 3
  StreamCap = 2
  MaxFaults = 2
INVARIANTS
  SyncedCoversObserved
  DiscoveryInv
PROPERTIES
  ViewSpec
  Converges
CHECK_DEADLOCK FALSE
