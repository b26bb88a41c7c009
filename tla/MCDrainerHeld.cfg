SPECIFICATION DrainSpec
CONSTANTS
  w1 = w1
  w2 = w2
  a = a
  b = b
  Flows = {w1}
  Workers = 2
  Jobs = {b}
  KG = {}
  Review = {}
  Recurring = {}
  NoFlow = NoFlow
  NoJob = NoJob
  MaxJobs = 1
  MaxTries = 2
  TotalLimit = 2
  BackgroundLimit = 2
  KgLimit = 1
  BaseCap = 0
  BurstJobs = 1
  MaxFaults = 0
INVARIANT
  HeldJobHasOwner
CHECK_DEADLOCK FALSE
