SPECIFICATION DispatcherSpec
CONSTANTS
  t1 = t1
  t2 = t2
  a = a
  b = b
  TaskIds = {t1, t2}
  Keys = {k1}
  Nodes = {n1}
  NoId = NoId
  NoKey = NoKey
  NoNode = NoNode
  MaxAttempts = 2
  RetryOn = {"transport"}
  SubmitKeys = {k1, NoKey}
  Deadlines = {0}
  Faults = {"lost", "late"}
  Reported = {"transport"}
  DlqEnabled = TRUE
  ResultTtl = 1
  Retention = 1
  AttemptBound = 3
  TimeBound = 0
  Principals = {a, b}
  Owner <- TwoOwners
  Cap = 2
  FixedShare = 0
  Budgeted = {b}
  Downable = {}
  FaultBound = 2
INVARIANTS
  DepthIsExact
  InflightIsExact
  TimerOwnsRetry
  WorkerOwnsRun
