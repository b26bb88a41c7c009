SPECIFICATION FairFleetSpec
CONSTANTS
  WorkerCount = 2
  MaxGen = 2
  MaxLegacy = 1
  FaultBound = 2
INVARIANTS
  FleetInv
  FleetBound
PROPERTIES
  IntentsAreServed
  SlotsRefill
