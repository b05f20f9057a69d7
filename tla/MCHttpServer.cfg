SPECIFICATION MCSpec
CONSTANTS
  kCheapPrepend    = 1
  kInitialSize     = 3
  ExtraSize        = 2
  Zero             = "zero"
  MaxLines         = 4
  Streams          <- MCStreams
  Requests         <- MCRequests
  File             <- MCFile
  READ_BUFFER_SIZE = 11
  MaxRequests      = 2
CHECK_DEADLOCK FALSE
INVARIANT ReadableIsTheRest RepliesAreTheStreams ResponsesAreTheRequests
PROPERTY WholeRequestIsAnswered FittingRequestIsAnswered
