SPECIFICATION DrainSpec
CONSTANTS
  w1 = w1
  w2 = w2
  a = a
  b = b
  Flows = {w1, w2}
  Workers = 2
  Jobs = {a, b}
  KG = {a}
  Review = {a}
  Recurring = {b}
  NoFlow = NoFlow
  NoJob = NoJob
  MaxJobs = 1
  MaxTries = 2
  TotalLimit = 2
  BackgroundLimit = 2
  KgLimit = 2
  BaseCap = 2
  BurstJobs = 0
  MaxFaults = 1
SYMMETRY FlowSymmetry
INVARIANTS
  PermitInv
  JobRunsAlone
  PoolHolds
CHECK_DEADLOCK FALSE
