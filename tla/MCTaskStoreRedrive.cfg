SPECIFICATION Spec
CONSTANTS
  TaskIds = {t1}
  Keys = {k1}
  Nodes = {n1}
  NoId = NoId
  NoKey = NoKey
  NoNode = NoNode
  MaxAttempts = 2
  RetryOn = {"transport"}
  SubmitKeys = {k1, NoKey}
  Deadlines = {0}
  Faults = {"lost", "late"}
  Reported = {"transport", "guest4xx", "capacity"}
  DlqEnabled = TRUE
  ResultTtl = 1
  Retention = 1
  AttemptBound = 3
  TimeBound = 2
PROPERTY RedriveIsDurable
