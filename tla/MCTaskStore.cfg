SPECIFICATION Spec
CONSTANTS
  TaskIds = {t1, t2}
  Keys = {k1}
  Nodes = {n1}
  NoId = NoId
  NoKey = NoKey
  NoNode = NoNode
  MaxAttempts = 2
  RetryOn = {"transport"}
  SubmitKeys = {k1}
  Deadlines = {0}
  Faults = {"lost", "late"}
  Reported = {"transport","guest4xx","capacity"}
  DlqEnabled = TRUE
  ResultTtl = 0
  Retention = 0
  AttemptBound = 3
  TimeBound = 1
SYMMETRY Symmetry
INVARIANTS
  TypeOK
  OpLogNeverBehind
  SettledInOpLog
  OneTaskPerKey
  AckedUntilPruned
  AttemptRunsOnce
PROPERTIES
  SuccessIsFinal
  AttemptNeverFalls
