CONSTANTS
  kInitRetryDelayMs = 500
  kMaxRetryDelayMs = 1500
  MaxStarts = 2
  MaxStops = 2
  Client = {c1, c2}
  MaxRounds = 2
  MaxReads = 2
SPECIFICATION MCSpec
CHECK_DEADLOCK FALSE
INVARIANTS
  OneStartIsSafe
  SocketIsOwned
  NotForgotten
  RequestSuitsItsVersion
  ResultIsTheRequests
PROPERTIES
  StopEndsAttempts
  BenchEnds
