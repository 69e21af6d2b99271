SPECIFICATION Spec
CONSTANTS
  Characters <- SmallCharacters
  Blocks <- SmallBlocks
  MaxBlocks = 2
  NoId = NoId
INVARIANTS
  EventsAsSent
  WatchInv
  Prompt
  ClientsAgree
  CrLfComesAsOne
CHECK_DEADLOCK FALSE
