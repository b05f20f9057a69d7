CONSTANTS
  Size = 2
  MaxRequests = 2
  MaxCalls = 0
SPECIFICATION Spec
CHECK_DEADLOCK FALSE
INVARIANT
  RepliesSentBeforeShutdown
