CONSTANTS
  Size = 2
  MaxRequests = 2
  MaxCalls = 2
SPECIFICATION Spec
CHECK_DEADLOCK FALSE
INVARIANTS
  IoThreadUseIsSafe
  WireIsWholeMessages
  WriteInterestIsPendingOutput
PROPERTIES
  ShutdownAfterFlush
  EventuallyFreed
