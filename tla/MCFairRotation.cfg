SPECIFICATION RotationSpec
CONSTANTS
  p1 = p1
  p2 = p2
  p3 = p3
  a1 = a1
  a2 = a2
  b1 = b1
  b2 = b2
  c1 = c1
  Principals <- MCPrincipals
  Waiting <- MCWaiting
  Tenant <- MCOwner
  Cap = 2
  FixedShare = 0
  Metered = {p3}
INVARIANTS
  QueueConsistent
  OvertakenOnce
PROPERTIES
  NoStarvation
