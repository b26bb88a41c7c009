SPECIFICATION DispatcherSpec
CONSTANTS
  t1 = t1
  t2 = t2
  a = a
  b = b
  TaskIds = {t1, t2}
  Keys = {}
  Nodes = {n1}
  NoId = NoId
  NoKey = NoKey
  NoNode = NoNode
  MaxAttempts = 2
  RetryOn = {"transport"}
  SubmitKeys = {NoKey}
  Deadlines = {0}
  Faults = {"lost", "late"}
  Reported = {"transport", "capacity"}
  DlqEnabled = TRUE
  ResultTtl = 1
  Retention = 1
  AttemptBound = 3
  TimeBound = 0
  Principals = {a, b}
  Owner <- TwoOwners
  Cap = 2
  FixedShare = 0
  Budgeted = {b}
  Downable = {n1}
  FaultBound = 0
INVARIANTS
  NeverDoubleDispatched
