CONSTANTS
  Workers = {w1, w2, w3}
  Tasks = {t1, t2, t3}
  Threads = {th1, th2, th3}
  Monitors <- MCMonitors
  Nobody = Nobody
  Count = 1
  MaxCalls = 2
  kLargeBuffer = 4
  Lens = {1, 4}
  MaxToWrite = 2
  MaxFull = 2
  kSmallBuffer = 9
  kMaxNumericSize = 5
  Base = 2
  Digits = 2
  DoubleSize = 4
SPECIFICATION MCSpec
CHECK_DEADLOCK FALSE
INVARIANTS
  NoWorkerSleepsInVain
  HolderHasTheMutexOrWaits
  ElementsAreTakenInOrder
  BuffersHaveOneOwner
  LineHoldsTheNumber
PROPERTIES
  QueuedTaskRuns
  LatchOpens
