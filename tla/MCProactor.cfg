CONSTANTS
  f1 = f1
  f2 = f2
  w1 = w1
  w2 = w2
  Fd <- MCFd
  Worker <- MCWorker
  MaxWaiting = 0
  Lifetime = 2
  MaxConns = 2
SPECIFICATION Spec
CHECK_DEADLOCK FALSE
INVARIANTS
  TimersAreOfOpenConnections
  HandledConnectionIsQuiet
  AnswersGoHome
  LeftConnectionIsWatched
PROPERTY
  EveryConnectionEnds
