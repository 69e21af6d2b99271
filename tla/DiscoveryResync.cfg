SPECIFICATION Spec
CONSTANTS
  MaxRevision = 3
  StreamCap = 2
  MaxFaults = 1
PROPERTIES
  ResyncStands
CHECK_DEADLOCK FALSE
