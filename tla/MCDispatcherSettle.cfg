SPECIFICATION FairDispatcherSpec
CONSTANTS
  t1 = t1
  t2 = t2
  a = a
  b = b
  TaskIds = {t1}
  Keys = {}
  Nodes = {n1}
  NoId = NoId
  NoKey = NoKey
  NoNode = NoNode
  MaxAttempts = 2
  RetryOn = {"transport"}
  SubmitKeys = {NoKey}
  Deadlines = {0}
  Faults = {"lost", "late"}
  Reported = {"transport", "guest4xx"}
  DlqEnabled = TRUE
  ResultTtl = 0
  Retention = 0
  AttemptBound = 3
  TimeBound = 1
  Principals = {a}
  Owner <- SoleTask
  Cap = 2
  FixedShare = 0
  Budgeted = {}
  Downable = {n1}
  FaultBound = 2
PROPERTIES
  EventuallySettled
