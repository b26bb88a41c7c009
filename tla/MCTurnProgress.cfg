SPECIFICATION FairTurnSpec
CONSTANTS
  MaxClaims = 2
  MaxSeq = 2
  MaxDispatches = 1
  MaxPosts = 3
  MaxGuests = 2
  Kinds = {"interactive"}
  Staged = TRUE
  FaultBound = 1
  Budget = 3
PROPERTIES
  EveryMessageEnds
CHECK_DEADLOCK FALSE
