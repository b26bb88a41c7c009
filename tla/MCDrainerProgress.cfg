SPECIFICATION FairDrainSpec
CONSTANTS
  w1 = w1
  w2 = w2
  a = a
  b = b
  Flows = {w1, w2}
  Workers = 2
  Jobs = {a}
  KG = {a}
  Review = {a}
  Recurring = {a}
  NoFlow = NoFlow
  NoJob = NoJob
  MaxJobs = 1
  MaxTries = 2
  TotalLimit = 2
  BackgroundLimit = 2
  KgLimit = 1
  BaseCap = 0
  BurstJobs = 1
  MaxFaults = 1
INVARIANTS
  AllowanceHolds
PROPERTIES
  PermitsReturn
CHECK_DEADLOCK FALSE
