SPECIFICATION TurnSpec
CONSTANTS
  MaxClaims = 2
  MaxSeq = 2
  MaxDispatches = 2
  MaxPosts = 2
  MaxGuests = 2
  Kinds = {"workflow"}
  Staged = FALSE
  FaultBound = 2
  Budget = 3
INVARIANTS
  PermitCoversRun
  OneLivePost
  HoldKeepsReceipt
PROPERTIES
  SweepsKeepCommittedResult
  ImplementsContract
CHECK_DEADLOCK FALSE
