SPECIFICATION TurnSpec
CONSTANTS
  MaxClaims = 1
  MaxSeq = 1
  MaxDispatches = 1
  MaxPosts = 1
  MaxGuests = 1
  Kinds = {"workflow"}
  Staged = FALSE
  FaultBound = 2
  Budget = 3
PROPERTY
  CommittedResultWins
CHECK_DEADLOCK FALSE
