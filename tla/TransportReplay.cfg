SPECIFICATION Spec
CONSTANTS
  Calls = {c1, c2}
  MaxRetries = 1
  Edge = TRUE
  KeepsRefusals = FALSE
  Absent = absent
PROPERTY ReplayConverges
CHECK_DEADLOCK FALSE
