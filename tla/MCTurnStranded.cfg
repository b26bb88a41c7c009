SPECIFICATION TurnSpec
CONSTANTS
  MaxClaims = 1
  MaxSeq = 1
  MaxDispatches = 1
  MaxPosts = 2
  MaxGuests = 2
  Kinds = {"interactive"}
  Staged = FALSE
  FaultBound = 1
  Budget = 2
INVARIANT
  NeverStranded
CHECK_DEADLOCK FALSE
