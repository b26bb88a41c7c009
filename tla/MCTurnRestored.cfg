SPECIFICATION TurnSpec
CONSTANTS
  MaxClaims = 2
  MaxSeq = 2
  MaxDispatches = 1
  MaxPosts = 3
  MaxGuests = 2
  Kinds = {"workflow"}
  Staged = FALSE
  FaultBound = 2
  Budget = 4
INVARIANT
  PostsNeverOverlap
CHECK_DEADLOCK FALSE
