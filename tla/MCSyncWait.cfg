SPECIFICATION WaitSpec
CONSTANTS
  w1 = w1
  w2 = w2
  c1 = c1
  TaskIds = {t1}
  Keys = {}
  Nodes = {n1}
  NoId = NoId
  NoKey = NoKey
  NoNode = NoNode
  MaxAttempts = 2
  RetryOn = {"transport"}
  SubmitKeys = {NoKey}
  Deadlines = {0}
  Faults = {}
  Reported = {"transport"}
  DlqEnabled = TRUE
  ResultTtl = 1
  Retention = 1
  AttemptBound = 2
  TimeBound = 0
  Waiters = {w1, w2}
  Callers = {c1}
  Caller <- OneCaller
  ParkCap = 1
  CrashBound = 1
INVARIANTS
  WaitTypeOK
  ParkCapHolds
  NoMissedWake
